---- MODULE Spec2Model ----
(***************************************************************************)
(* The analysis pipeline of ChopinCompetitionAgent (src/agent.py): five    *)
(* LangGraph nodes run in a fixed order over one AgentState, followed by   *)
(* the return of analyze().                                                *)
(*                                                                         *)
(* Numbers.  Scores are Python floats on the scale 0..10.  Here a score is *)
(* an integer number of tenths (92 is 9.2) and every averaged or weighted  *)
(* value is an exact fraction [num, den] in tenths, den > 0.               *)
(* Probabilities and the confidence are integers in hundredths (75 is      *)
(* 0.75).  Binary floating-point rounding is not represented.              *)
(***************************************************************************)
EXTENDS Integers, Sequences, FiniteSets, TLC

(***************************************************************************)
(* Bounds of the model.                                                    *)
(***************************************************************************)
\* most records the website collector returns in one run
MaxWeb == 2
\* most records the YouTube collector returns in one run
MaxYt == 2
\* most reviews the news collector returns in one run
MaxReviews == 1
\* most LLM calls of one run that depart from the nominal answer
MaxDeviations == 1
\* the largest review corpus one prompt is built from
MaxCorpus == 5
\* most analyses the grouping is checked over (specification SpecGroup)
MaxGrouped == 3
\* most performances analysed where the scoring call takes two steps
\* (specification SpecFlight)
MaxFlight == 5
\* how many different strengths the analyses of one pianist can name
\* (specification SpecEntries)
MaxEntries == 6
\* how far below and beyond the cap of 20 a drawn collection reaches
\* (specification SpecCap)
CapBelow == 1
CapBeyond == 1
\* days between the publication of two videos the YouTube collector finds
VideoAgeStep == 10
\* a lookback_days shorter than the default (specification SpecRequest)
ShortLookbackDays == 7
\* most pianists in a drawn evaluation set (specification SpecRank)
MaxRanked == 20
\* largest sub-score, in tenths, of a drawn analysis (specification SpecScore)
MaxScore == 100

(***************************************************************************)
(* Program constants.                                                      *)
(***************************************************************************)
\* state.performances_collected[:20]
AnalysisCap == 20
\* ranked_pianists[:10]
TopCount == 10
\* top_10[:6]
FinalistCount == 6
\* ranked_pianists[10:20]
DarkHorseEnd == 20
\* [...][:3]
DarkHorseCap == 3
\* list(set(...))[:5]
EntryCap == 5
\* HTTPException(status_code=503, ...)
ServiceUnavailable == 503
\* .get('score', 7), in tenths
DefaultScore == 70
\* settings.*_SCORE_THRESHOLD, in tenths
LOW_SCORE_THRESHOLD == 60
MEDIUM_SCORE_THRESHOLD == 75
HIGH_SCORE_THRESHOLD == 85
EXCELLENT_SCORE_THRESHOLD == 90
\* Field(ge=0, le=10), in tenths
FieldMin == 0
FieldMax == 100
\* confidence=0.75 and confidence=0.0, in hundredths
ConfidenceWithData == 75
ConfidenceNoData == 0
\* len(settings.COMPETITION_SOURCES) and len(settings.NEWS_SOURCES)
NumCompetitionSources == 4
NumNewsSources == 4
\* relevant_reviews[:3]
PromptReviews == 3
\* analyze(..., lookback_days: int = 30)
DefaultLookbackDays == 30

\* the five scored dimensions of an analysis, in the order of the code
Dims == <<"technical_skill", "musicality", "interpretation", "stage_presence", "repertoire">>
DimSet == {Dims[i] : i \in 1..Len(Dims)}

\* settings.CRITERIA_WEIGHTS, in hundredths, keyed by the analysis dimension
\* each weight multiplies (repertoire is weighted by 'repertoire_difficulty')
CRITERIA_WEIGHTS ==
    [d \in DimSet |->
        CASE d = "technical_skill" -> 25
          [] d = "musicality"      -> 30
          [] d = "interpretation"  -> 20
          [] d = "stage_presence"  -> 10
          [] d = "repertoire"      -> 15]

(***************************************************************************)
(* Exact fractions.                                                        *)
(***************************************************************************)
Frac(n, d) == [num |-> n, den |-> d]
FracGeq(a, b) == a.num * b.den >= b.num * a.den
FracEq(a, b) == a.num * b.den = b.num * a.den
FracGt(a, b) == a.num * b.den > b.num * a.den

(***************************************************************************)
(* Generic sequence helpers.                                               *)
(***************************************************************************)
Min(a, b) == IF a <= b THEN a ELSE b
Range(s) == {s[i] : i \in 1..Len(s)}
\* Python s[:n]
Take(s, n) == SubSeq(s, 1, Min(n, Len(s)))
\* the slice taken from the a-th element on, one place too early
Slice_Mutant(s, a, b) == IF a > Min(b, Len(s)) \/ a < 1 THEN <<>> ELSE SubSeq(s, a, Min(b, Len(s)))
\* Python s[a:b]
Slice(s, a, b) == IF a >= Min(b, Len(s)) THEN <<>> ELSE SubSeq(s, a + 1, Min(b, Len(s)))

RECURSIVE SumOver(_, _)
SumOver(f, S) ==
    IF S = {} THEN 0
    ELSE LET x == CHOOSE y \in S : TRUE IN f[x] + SumOver(f, S \ {x})

(***************************************************************************)
(* The environment: what the collectors find and what the LLM answers.     *)
(***************************************************************************)
\* pianist names as the collectors extract them
Roster == <<"A", "B", "C", "D", "E", "F", "G", "H", "I", "J", "K", "L", "M",
            "N", "O", "P", "Q", "R", "S", "T", "U", "V", "W", "X", "Y", "Z">>

\* the lower-case letters, in the order of the roster
LowerCase == <<"a", "b", "c", "d", "e", "f", "g", "h", "i", "j", "k", "l", "m",
               "n", "o", "p", "q", "r", "s", "t", "u", "v", "w", "x", "y", "z">>

\* a character of a review equals a letter up to its case
SameLetter(c, letter) ==
    \/ c = letter
    \/ \E i \in 1..Len(Roster) : {c, letter} = {Roster[i], LowerCase[i]}

\* PerformanceData records of the website collector: distinct pianists; the
\* k-th record is found on the k-th source URL, the last URL holds the rest
WebsitePerformances(n) ==
    [k \in 1..n |->
        [id |-> k, pianist_name |-> Roster[k], nationality |-> "Poland",
         stage |-> "preliminary", source_type |-> "competition_website",
         source |-> Min(k, NumCompetitionSources), age_days |-> 0]]

\* PerformanceData records of the YouTube collector: distinct pianists, from
\* the given place of the roster on; performance_date is the day the video
\* was published, the k-th video VideoAgeStep * k days ago (the website
\* collector sets performance_date to the time of the collection)
YoutubePerformances(n, first) ==
    [k \in 1..n |->
        [id |-> 100 + k, pianist_name |-> Roster[first + k - 1], nationality |-> "Unknown",
         stage |-> "stage_1", source_type |-> "youtube", source |-> 0,
         age_days |-> VideoAgeStep * k]]

\* review dicts of the news collector; the content is a sequence of
\* characters, that of the k-th review the names of the first k pianists; the
\* k-th review is found on the k-th source URL, the last URL holds the rest
NewsReviews(n) ==
    [k \in 1..n |->
        [title |-> k, content |-> [j \in 1..k |-> Roster[j]],
         source |-> Min(k, NumNewsSources)]]

\* what _scrape_website returns for each URL of COMPETITION_SOURCES, in order,
\* when n records are on the sites
WebsitePages(n) ==
    [s \in 1..NumCompetitionSources |->
        LET On(p) == p.source = s IN SelectSeq(WebsitePerformances(n), On)]

\* what _scrape_news returns for each URL of NEWS_SOURCES, in order
NewsPages(n) ==
    [s \in 1..NumNewsSources |->
        LET On(r) == r.source = s IN SelectSeq(NewsReviews(n), On)]

\* the list of a collector after its loop has passed the first s sources:
\* a source that fails is caught and adds nothing
RECURSIVE ExtendFrom(_, _, _)
ExtendFrom(pages, failing, s) ==
    IF s = 0 THEN <<>>
    ELSE ExtendFrom(pages, failing, s - 1) \o (IF s \in failing THEN <<>> ELSE pages[s])

\* the try around the whole loop: the first failing source ends the collection
WebsiteCollect_Mutant(pages, failing) ==
    IF failing \cap (1..Len(pages)) = {} THEN ExtendFrom(pages, {}, Len(pages))
    ELSE LET first == CHOOSE s \in failing \cap (1..Len(pages)) :
                        \A t \in failing \cap (1..Len(pages)) : s <= t
         IN ExtendFrom(pages, {}, first - 1)

\* CompetitionWebsiteCollector.collect
WebsiteCollect(pages, failing) == ExtendFrom(pages, failing, Len(pages))

\* NewsReviewCollector.collect
NewsCollect(pages, failing) == ExtendFrom(pages, failing, Len(pages))

\* what the sources hold and which of them fail while a run collects;
\* http_client says whether httpx.AsyncClient, which the website and the news
\* collector open outside their per-URL try, "opens", "fails", or does
\* "either" from one call to the next
SourcesWith(nw, ny, nr, web_failing, news_failing) ==
    [web_pages |-> WebsitePages(nw), web_failing |-> web_failing,
     youtube |-> YoutubePerformances(ny, MaxWeb),
     news_pages |-> NewsPages(nr), news_failing |-> news_failing,
     http_client |-> "either"]

\* one dimension of the JSON object of a scoring answer
Scored(s) == [tag |-> "score", score |-> s]
Absent == [tag |-> "absent", score |-> 0]
Unusable == [tag |-> "unusable", score |-> 0]

Uniform(s) == [d \in DimSet |-> Scored(s)]

\* the answer of the LLM to a scoring call
JsonAnswer(body) == [kind |-> "json", body |-> body]
TextAnswer == [kind |-> "text", body |-> Uniform(0)]
CallRaises == [kind |-> "raise", body |-> Uniform(0)]

\* the nominal scoring answer for a pianist: a well-formed JSON object with
\* the same score in every dimension, 9.2, 8.6, 7.0, 8.5 in turn along the roster
NominalLevels == <<92, 86, 70, 85>>
RosterIndex(name) == CHOOSE i \in 1..Len(Roster) : Roster[i] = name
NominalAnswer(name) ==
    JsonAnswer(Uniform(NominalLevels[((RosterIndex(name) - 1) % Len(NominalLevels)) + 1]))

\* the answers that depart from the nominal one
DeviantAnswers ==
    { CallRaises, TextAnswer,
      JsonAnswer(Uniform(50)),
      JsonAnswer(Uniform(100)),
      JsonAnswer([Uniform(90) EXCEPT !["technical_skill"] = Scored(100),
                                     !["stage_presence"] = Scored(60)]),
      JsonAnswer([Uniform(90) EXCEPT !["repertoire"] = Absent]),
      JsonAnswer([Uniform(90) EXCEPT !["musicality"] = Unusable]),
      JsonAnswer(Uniform(110)),
      JsonAnswer([Uniform(80) EXCEPT !["interpretation"] = Scored(0 - 10)]) }

(***************************************************************************)
(* _analyze_single_performance: the record one scoring answer becomes.     *)
(***************************************************************************)
\* the parsed object keeps the name the LLM wrote into it, here "a"
ParsedAnalysis_Mutant(performance, answer) ==
    [pianist_name |-> "a", performance_id |-> performance.id,
     error |-> FALSE, body |-> answer.body]

\* json.loads succeeded: the parsed object plus pianist_name and performance_id
ParsedAnalysis(performance, answer) ==
    [pianist_name |-> performance.pianist_name, performance_id |-> performance.id,
     error |-> FALSE, body |-> answer.body]

\* json.loads failed: the stub with pianist_name, performance_id and error
StubAnalysis(performance) ==
    [pianist_name |-> performance.pianist_name, performance_id |-> performance.id,
     error |-> TRUE, body |-> [d \in DimSet |-> Absent]]

AnalysisOf(performance, answer) ==
    IF answer.kind = "json" THEN ParsedAnalysis(performance, answer)
    ELSE StubAnalysis(performance)

\* a parse failure that escapes to the loop: it adds no record either
AnalysesAfter_Mutant(analyses, performance, answer) ==
    IF answer.kind = "json" THEN Append(analyses, ParsedAnalysis(performance, answer))
    ELSE analyses

\* one iteration of the loop of _analyze_performances: the local list after
\* the answer; a call that raises is caught by the loop and adds nothing
AnalysesAfter(analyses, performance, answer) ==
    IF answer.kind = "raise" THEN analyses
    ELSE Append(analyses, AnalysisOf(performance, answer))

(***************************************************************************)
(* _evaluate_pianists: grouping of the analyses by pianist name.           *)
(***************************************************************************)
\* the keys of pianist_analyses in insertion order: the non-empty names of
\* the analyses in the order of their first occurrence
\* a list of names in place of the dict: one entry for every analysis
GroupNames_Mutant(analyses) ==
    LET HasName(a) == a.pianist_name # ""
        named == SelectSeq(analyses, HasName)
    IN [i \in 1..Len(named) |-> named[i].pianist_name]

RECURSIVE GroupNames(_)
GroupNames(analyses) ==
    IF analyses = <<>> THEN <<>>
    ELSE LET front == GroupNames(SubSeq(analyses, 1, Len(analyses) - 1))
             name == analyses[Len(analyses)].pianist_name
         IN IF name = "" \/ name \in Range(front) THEN front ELSE Append(front, name)

\* a grouping that takes names for equal when they differ in case only
GroupOf_Mutant(analyses, name) ==
    LET Match(a) == a.pianist_name # "" /\ SameLetter(a.pianist_name, name)
    IN SelectSeq(analyses, Match)

\* pianist_analyses[name]
GroupOf(analyses, name) ==
    LET Match(a) == a.pianist_name = name IN SelectSeq(analyses, Match)

(***************************************************************************)
(* _create_pianist_evaluation.                                             *)
(***************************************************************************)
\* a.get(dim, {}).get('score', 7)
DimScore(a, d) == IF a.body[d].tag = "score" THEN a.body[d].score ELSE DefaultScore

\* sum(... for a in analyses) of one dimension
SumScores(analyses, d) ==
    SumOver([i \in 1..Len(analyses) |-> DimScore(analyses[i], d)], 1..Len(analyses))

\* the sums raise when a dimension is present but is no dict with a number
ScoresUsable(analyses) ==
    \A i \in 1..Len(analyses) : \A d \in DimSet : analyses[i].body[d].tag # "unusable"

\* avg_technical .. avg_repertoire
Averages(analyses) == [d \in DimSet |-> Frac(SumScores(analyses, d), Len(analyses))]

\* the interpretation average multiplied by the weight of musicality
WeightedScore_Mutant(avg) ==
    Frac(SumOver([d \in DimSet |->
                    avg[d].num * (IF d = "interpretation" THEN CRITERIA_WEIGHTS["musicality"]
                                  ELSE CRITERIA_WEIGHTS[d])], DimSet),
         avg["technical_skill"].den * 100)

\* weighted_score: sum of average times weight (weights in hundredths)
WeightedScore(avg) ==
    Frac(SumOver([d \in DimSet |-> avg[d].num * CRITERIA_WEIGHTS[d]], DimSet),
         avg["technical_skill"].den * 100)

\* overall_score: the plain mean of the five averages
OverallScore(avg) ==
    Frac(SumOver([d \in DimSet |-> avg[d].num], DimSet),
         avg["technical_skill"].den * Len(Dims))

\* the chain with the first comparison strict: 9.0 itself is not OUTSTANDING
LevelOf_Mutant(w) ==
    IF FracGt(w, Frac(EXCELLENT_SCORE_THRESHOLD, 1))
    THEN [level |-> "outstanding", win |-> 80, fin |-> 95]
    ELSE IF FracGeq(w, Frac(HIGH_SCORE_THRESHOLD, 1))
    THEN [level |-> "excellent", win |-> 50, fin |-> 85]
    ELSE IF FracGeq(w, Frac(MEDIUM_SCORE_THRESHOLD, 1))
    THEN [level |-> "good", win |-> 20, fin |-> 60]
    ELSE IF FracGeq(w, Frac(LOW_SCORE_THRESHOLD, 1))
    THEN [level |-> "average", win |-> 5, fin |-> 30]
    ELSE [level |-> "eliminated", win |-> 1, fin |-> 10]

\* the if/elif chain on weighted_score: level, win_prob, finalist_prob
LevelOf(w) ==
    IF FracGeq(w, Frac(EXCELLENT_SCORE_THRESHOLD, 1))
    THEN [level |-> "outstanding", win |-> 80, fin |-> 95]
    ELSE IF FracGeq(w, Frac(HIGH_SCORE_THRESHOLD, 1))
    THEN [level |-> "excellent", win |-> 50, fin |-> 85]
    ELSE IF FracGeq(w, Frac(MEDIUM_SCORE_THRESHOLD, 1))
    THEN [level |-> "good", win |-> 20, fin |-> 60]
    ELSE IF FracGeq(w, Frac(LOW_SCORE_THRESHOLD, 1))
    THEN [level |-> "average", win |-> 5, fin |-> 30]
    ELSE [level |-> "eliminated", win |-> 1, fin |-> 10]

\* Field(ge=0, le=10)
InField(x) == FracGeq(x, Frac(FieldMin, 1)) /\ FracGeq(Frac(FieldMax, 1), x)

\* fields declared with ge=0 only
Validates_Mutant(avg) ==
    /\ \A d \in DimSet : FracGeq(avg[d], Frac(FieldMin, 1))
    /\ FracGeq(OverallScore(avg), Frac(FieldMin, 1))
    /\ FracGeq(WeightedScore(avg), Frac(FieldMin, 1))

\* the pydantic validation of the PianistEvaluation and its sub-analyses
Validates(avg) ==
    /\ \A d \in DimSet : InField(avg[d])
    /\ InField(OverallScore(avg))
    /\ InField(WeightedScore(avg))

\* performances of this pianist among the collected ones
PerformancesOf(performances, name) ==
    LET Match(p) == p.pianist_name = name IN SelectSeq(performances, Match)

\* analysis.get('strengths', []), analysis.get('weaknesses', [])
EntriesOf(analysis, field) ==
    IF field \in DOMAIN analysis THEN analysis[field] ELSE <<>>

\* all_strengths, all_weaknesses: the lists of the analyses one after another
RECURSIVE AllEntries(_, _)
AllEntries(analyses, field) ==
    IF analyses = <<>> THEN <<>>
    ELSE AllEntries(SubSeq(analyses, 1, Len(analyses) - 1), field)
            \o EntriesOf(analyses[Len(analyses)], field)

\* the first five of the list as it is, duplicates included
UniqueTop_Mutant(all) == {Take(all, EntryCap)}

\* list(set(all))[:5]: the order in which a set of strings is listed is not
\* fixed, so any EntryCap different entries, in any order, can come out
UniqueTop(all) ==
    { top \in [1..Min(EntryCap, Cardinality(Range(all))) -> Range(all)] :
        \A i, j \in DOMAIN top : top[i] = top[j] => i = j }

\* the values strengths and weaknesses can have for these analyses
UniqueLists(analyses) ==
    { [strengths |-> st, weaknesses |-> wk] :
        st \in UniqueTop(AllEntries(analyses, "strengths")),
        wk \in UniqueTop(AllEntries(analyses, "weaknesses")) }

\* the PianistEvaluation that is returned when nothing raises
PianistEvaluation(pianist_name, analyses, performances, unique) ==
    LET avg == Averages(analyses)
        w == WeightedScore(avg)
        lv == LevelOf(w)
    IN [pianist_name |-> pianist_name,
        nationality |-> PerformancesOf(performances, pianist_name)[1].nationality,
        stage |-> PerformancesOf(performances, pianist_name)[1].stage,
        averages |-> avg,
        overall_score |-> OverallScore(avg),
        weighted_score |-> w,
        performance_level |-> lv.level,
        win_probability |-> lv.win,
        finalist_probability |-> lv.fin,
        strengths |-> unique.strengths,
        weaknesses |-> unique.weaknesses,
        expert_opinions_count |-> Len(analyses)]

\* the call raises before it reaches the LLM: no performance of that name,
\* or a score that cannot be summed
RaisesBeforeLLM(pianist_name, analyses, performances) ==
    \/ PerformancesOf(performances, pianist_name) = <<>>
    \/ ~ScoresUsable(analyses)

(***************************************************************************)
(* _predict_winners: the ranking and what is derived from it.              *)
(***************************************************************************)
\* an unstable sort: an entry goes before the entries of equal key
RECURSIVE InsertRanked_Mutant(_, _)
InsertRanked_Mutant(ranked, e) ==
    IF ranked = <<>> THEN <<e>>
    ELSE IF FracGt(ranked[1].weighted_score, e.weighted_score)
         THEN <<ranked[1]>> \o InsertRanked_Mutant(Tail(ranked), e)
         ELSE <<e>> \o ranked

\* sorted(..., key=weighted_score, reverse=True): a stable sort, so entries
\* of equal key keep their order; here by insertion after every entry whose
\* key is not smaller
RECURSIVE InsertRanked(_, _)
InsertRanked(ranked, e) ==
    IF ranked = <<>> THEN <<e>>
    ELSE IF FracGeq(ranked[1].weighted_score, e.weighted_score)
         THEN <<ranked[1]>> \o InsertRanked(Tail(ranked), e)
         ELSE <<e>> \o ranked

\* the evaluations as the dict lists them, not sorted
SortedByWeighted_Mutant(evals) == evals

\* ranked_pianists
RECURSIVE SortedByWeighted(_)
SortedByWeighted(evals) ==
    IF evals = <<>> THEN <<>>
    ELSE InsertRanked(SortedByWeighted(SubSeq(evals, 1, Len(evals) - 1)), evals[Len(evals)])

NamesOf(evals) == [i \in 1..Len(evals) |-> evals[i].pianist_name]

\* one name too many
Top10_Mutant(ranked) == [i \in 1..Min(TopCount + 1, Len(ranked)) |-> ranked[i].pianist_name]

\* top_10
Top10(ranked) == NamesOf(Take(ranked, TopCount))

\* top_10[:6] if len(top_10) >= 6 else top_10
PredictedFinalists(top_10) ==
    IF Len(top_10) >= FinalistCount THEN Take(top_10, FinalistCount) ELSE top_10

\* the filter with the MEDIUM threshold in place of the HIGH one
DarkHorses_Mutant(ranked) ==
    LET Medium(e) == FracGeq(e.weighted_score, Frac(MEDIUM_SCORE_THRESHOLD, 1))
        tail == IF Len(ranked) <= TopCount THEN <<>>
                ELSE SubSeq(ranked, TopCount + 1, Min(DarkHorseEnd, Len(ranked)))
        kept == SelectSeq(tail, Medium)
    IN [i \in 1..Min(DarkHorseCap, Len(kept)) |-> kept[i].pianist_name]

\* the ranks 11..20 that reach the HIGH threshold, the first three of them
DarkHorses(ranked) ==
    LET High(e) == FracGeq(e.weighted_score, Frac(HIGH_SCORE_THRESHOLD, 1))
    IN Take(NamesOf(SelectSeq(Slice(ranked, TopCount, DarkHorseEnd), High)), DarkHorseCap)

\* the placeholder with the confidence of the normal branch
EmptyResponse_Mutant ==
    [evaluated_pianists |-> <<>>, top_10_predictions |-> <<>>,
     predicted_winner |-> "No data available", predicted_finalists |-> <<>>,
     dark_horses |-> <<>>, data_sources_analyzed |-> 0, confidence |-> ConfidenceWithData]

\* the CompetitionAnalysisResponse of the zero-evaluation branch
EmptyResponse ==
    [evaluated_pianists |-> <<>>, top_10_predictions |-> <<>>,
     predicted_winner |-> "No data available", predicted_finalists |-> <<>>,
     dark_horses |-> <<>>, data_sources_analyzed |-> 0, confidence |-> ConfidenceNoData]

\* the normal branch with the last of the top 10 as the winner
RankedResponse_Mutant(evals, sources) ==
    LET ranked == SortedByWeighted(evals)
        top_10 == Top10(ranked)
    IN [evaluated_pianists |-> ranked, top_10_predictions |-> top_10,
        predicted_winner |-> IF top_10 # <<>> THEN top_10[Len(top_10)]
                             ELSE "Unable to determine",
        predicted_finalists |-> PredictedFinalists(top_10),
        dark_horses |-> DarkHorses(ranked),
        data_sources_analyzed |-> sources, confidence |-> ConfidenceWithData]

\* the CompetitionAnalysisResponse of the normal branch
RankedResponse(evals, sources) ==
    LET ranked == SortedByWeighted(evals)
        top_10 == Top10(ranked)
    IN [evaluated_pianists |-> ranked, top_10_predictions |-> top_10,
        predicted_winner |-> IF top_10 # <<>> THEN top_10[1] ELSE "Unable to determine",
        predicted_finalists |-> PredictedFinalists(top_10),
        dark_horses |-> DarkHorses(ranked),
        data_sources_analyzed |-> sources, confidence |-> ConfidenceWithData]

(***************************************************************************)
(* State.                                                                  *)
(***************************************************************************)
VARIABLES
    pc,                     \* the node the graph is at, or "END"
    outcome,                \* of analyze(): "pending", "returned" or "raised"
    api_key,                \* whether settings.OPENAI_API_KEY is set
    performances_collected, \* AgentState fields
    reviews_collected,
    video_analyses,
    pianist_evaluations,    \* the dict, as the sequence of its values in insertion order
    final_analysis,         \* <<>> is None, <<r>> is the response r
    iteration,
    errors,
    loop_i,                 \* position of the running node in its for loop
    loop_names,             \* the keys of the local dict pianist_analyses, in insertion order
    loop_analyses,          \* the local list video_analyses of _analyze_performances
    loop_evaluations,       \* the local dict pianist_evaluations of _evaluate_pianists
    llm_log,                \* the calls this run has issued to the LLM, with their answers
    deviations,             \* how many of them departed from the nominal answer
    llm_faults,             \* the departing scoring answers the LLM of this run can give
    sources,                \* what the source URLs hold, and which of them fail
    request,                \* the arguments analyze() was called with
    exception,              \* <<>>, or <<e>> for the exception e analyze() ended with
    stage_log,              \* the nodes that have ended, in order, and whether each raised
    parked,                 \* <<>>, or <<r>> for a second run r of analyze() that is
                            \* suspended at an await while this one runs
    in_flight               \* ids of the performances whose scoring call is issued
                            \* and has not come back (only where the call is
                            \* modelled as two steps)

vars == <<pc, outcome, api_key, performances_collected, reviews_collected, video_analyses,
          pianist_evaluations, final_analysis, iteration, errors, loop_i, loop_names, loop_analyses,
          loop_evaluations, llm_log, deviations, llm_faults, sources, request, exception,
          stage_log, parked, in_flight>>

\* what no node writes: the configuration, the outside world, the request
\* and the other run; and the calls in flight, of which there are none
\* between two steps that make a call and take its answer at once
fixed_vars == <<api_key, llm_faults, sources, request, parked, in_flight>>

\* AgentState fields a node leaves alone are listed by the nodes themselves
loop_vars == <<loop_i, loop_names, loop_analyses, loop_evaluations>>

(***************************************************************************)
(* The graph of _build_graph, the request and the exceptions of analyze(). *)
(***************************************************************************)
\* the nodes in the order of the edges, END after the last
NodeOrder == <<"collect_performances", "collect_reviews", "analyze_performances",
               "evaluate_pianists", "predict_winners", "END">>
NodeIndex(node) == CHOOSE i \in 1..Len(NodeOrder) : NodeOrder[i] = node

\* an edge from collect_performances that passes collect_reviews by
NextNode_Mutant(node) ==
    IF node = "collect_performances" THEN "analyze_performances"
    ELSE NodeOrder[NodeIndex(node) + 1]

\* add_edge(node, next): the node the graph goes to when this one has returned
NextNode(node) == NodeOrder[NodeIndex(node) + 1]

\* an entry of stage_log
StageDone(node, raised) == [node |-> node, raised |-> raised]

\* the log of a run that has come to this node with no node having raised
StagesBefore(node) == [i \in 1..(NodeIndex(node) - 1) |-> StageDone(NodeOrder[i], FALSE)]

\* Python None as the value of pianist_name
None == "None"

\* analyze() called with its defaults
DefaultRequest == [pianist_name |-> None, lookback_days |-> DefaultLookbackDays]

\* raise Exception(f"Analysis failed: {result.get('errors')}")
AnalysisFailed(errs) == [raised_by |-> "analyze", errors |-> errs]

\* the exception of a node, which graph.ainvoke and analyze() let through;
\* it carries no list of errors
NodeRaised(node) == [raised_by |-> node, errors |-> <<>>]

\* what the sources can hold in a run of the whole pipeline; no source fails
\* (a failing source leaves a shorter list, as a smaller site does)
SourcesFound ==
    { SourcesWith(nw, ny, nr, {}, {}) :
        nw \in 0..MaxWeb, ny \in 0..MaxYt, nr \in 0..MaxReviews }

\* AgentState() and a fresh run of the graph
Init ==
    /\ pc = "collect_performances"
    /\ outcome = "pending"
    /\ api_key \in BOOLEAN
    /\ performances_collected = <<>>
    /\ reviews_collected = <<>>
    /\ video_analyses = <<>>
    /\ pianist_evaluations = <<>>
    /\ final_analysis = <<>>
    /\ iteration = 0
    /\ errors = <<>>
    /\ loop_i = 1
    /\ loop_names = <<>>
    /\ loop_analyses = <<>>
    /\ loop_evaluations = <<>>
    /\ llm_log = <<>>
    /\ deviations = 0
    /\ llm_faults = DeviantAnswers
    /\ sources \in SourcesFound
    /\ request = DefaultRequest
    /\ exception = <<>>
    /\ stage_log = <<>>
    /\ parked = <<>>
    /\ in_flight = {}

(***************************************************************************)
(* The LLM.                                                                *)
(***************************************************************************)
\* a client that is built whether or not a key is set
LLMAvailable_Mutant == TRUE

\* the llm property: raises ValueError when no API key is set, so that no
\* call is issued
LLMAvailable == api_key

\* what a scoring call for this pianist can come back with
ScoringAnswers(name) ==
    {NominalAnswer(name)} \cup (IF deviations < MaxDeviations THEN llm_faults ELSE {})

\* what a narrative call can do: return text, or raise
NarrativeAnswers ==
    {"text"} \cup (IF deviations < MaxDeviations THEN {"raise"} ELSE {})

LogCall(call, subject, reviews, answer) ==
    Append(llm_log, [call |-> call, subject |-> subject, reviews |-> reviews,
                     answer |-> answer])

(***************************************************************************)
(* _analyze_single_performance: the reviews that go into the prompt.       *)
(***************************************************************************)
\* str.lower() of one character: the letters of the roster are the capitals
LowerChar(c) ==
    IF \E i \in 1..Len(Roster) : Roster[i] = c
    THEN LowerCase[CHOOSE i \in 1..Len(Roster) : Roster[i] = c]
    ELSE c

\* str.lower()
Lower(str) == [i \in 1..Len(str) |-> LowerChar(str[i])]

\* the characters of a pianist name: a name of the roster is one letter
Chars(name) == IF name = "" THEN <<>> ELSE <<name>>

\* needle in hay, on sequences of characters
IsSubstring(needle, hay) ==
    \E k \in 0..(Len(hay) - Len(needle)) :
        \A i \in 1..Len(needle) : hay[k + i] = needle[i]

\* the filter without .lower(): the name as it is spelled
RelevantReviews_Mutant(pianist_name, reviews) ==
    LET Mentions(r) == IsSubstring(Chars(pianist_name), r.content)
    IN SelectSeq(reviews, Mentions)

\* relevant_reviews
RelevantReviews(pianist_name, reviews) ==
    LET Mentions(r) == IsSubstring(Lower(Chars(pianist_name)), Lower(r.content))
    IN SelectSeq(reviews, Mentions)

\* the reviews reviews_text is made of: relevant_reviews[:3]
ReviewsInPrompt(pianist_name, reviews) ==
    Take(RelevantReviews(pianist_name, reviews), PromptReviews)

(***************************************************************************)
(* Node collect_performances.                                              *)
(***************************************************************************)
collect_performances ==
    /\ pc = "collect_performances"
    /\ \/ /\ sources.http_client # "fails"
          /\ performances_collected' =
                WebsiteCollect(sources.web_pages, sources.web_failing) \o sources.youtube
          /\ iteration' = iteration + 1
          /\ stage_log' = Append(stage_log, StageDone(pc, FALSE))
          /\ UNCHANGED errors
       \/ \* website_collector.collect raises outside its per-URL try
          /\ sources.http_client # "opens"
          /\ errors' = Append(errors, "Performance collection error")
          /\ stage_log' = Append(stage_log, StageDone(pc, TRUE))
          /\ UNCHANGED <<performances_collected, iteration>>
    /\ pc' = NextNode(pc)
    /\ UNCHANGED <<outcome, reviews_collected, video_analyses, pianist_evaluations,
                   final_analysis, loop_vars, llm_log, deviations, exception, fixed_vars>>

(***************************************************************************)
(* Node collect_reviews.                                                   *)
(***************************************************************************)
\* the node's update replacing the running state instead of being merged
\* into it: what the update does not name falls back to its default
collect_reviews_Mutant ==
    /\ pc = "collect_reviews"
    /\ sources.http_client # "fails"
    /\ reviews_collected' = NewsCollect(sources.news_pages, sources.news_failing)
    /\ stage_log' = Append(stage_log, StageDone(pc, FALSE))
    /\ performances_collected' = <<>>
    /\ iteration' = 0
    /\ errors' = <<>>
    /\ pc' = NextNode(pc)
    /\ UNCHANGED <<outcome, video_analyses, pianist_evaluations, final_analysis,
                   loop_vars, llm_log, deviations, exception, fixed_vars>>

collect_reviews ==
    /\ pc = "collect_reviews"
    /\ \/ /\ sources.http_client # "fails"
          /\ reviews_collected' = NewsCollect(sources.news_pages, sources.news_failing)
          /\ stage_log' = Append(stage_log, StageDone(pc, FALSE))
          /\ UNCHANGED errors
       \/ \* news_collector.collect raises outside its per-URL try
          /\ sources.http_client # "opens"
          /\ errors' = Append(errors, "Review collection error")
          /\ stage_log' = Append(stage_log, StageDone(pc, TRUE))
          /\ UNCHANGED reviews_collected
    /\ pc' = NextNode(pc)
    /\ UNCHANGED <<outcome, performances_collected, video_analyses, pianist_evaluations,
                   final_analysis, iteration, loop_vars, llm_log, deviations, exception,
                   fixed_vars>>

(***************************************************************************)
(* Node analyze_performances: one iteration of the loop, and the return.   *)
(***************************************************************************)
\* a slice that is one too long
ToAnalyze_Mutant == Take(performances_collected, AnalysisCap + 1)

\* state.performances_collected[:20]
ToAnalyze == Take(performances_collected, AnalysisCap)

analyze_single_performance ==
    /\ pc = "analyze_performances"
    /\ loop_i <= Len(ToAnalyze)
    /\ LET performance == ToAnalyze[loop_i] IN
        IF ~LLMAvailable
        THEN \* self.llm raises, the loop prints and goes on
             UNCHANGED <<loop_analyses, llm_log, deviations>>
        ELSE \E answer \in ScoringAnswers(performance.pianist_name) :
                /\ llm_log' = LogCall("score", performance.id,
                                      ReviewsInPrompt(performance.pianist_name,
                                                      reviews_collected),
                                      answer.kind)
                /\ deviations' = IF answer = NominalAnswer(performance.pianist_name)
                                 THEN deviations ELSE deviations + 1
                /\ loop_analyses' = AnalysesAfter(loop_analyses, performance, answer)
    /\ loop_i' = loop_i + 1
    /\ UNCHANGED <<pc, outcome, performances_collected, reviews_collected,
                   video_analyses, pianist_evaluations, final_analysis, iteration, errors,
                   loop_names, loop_evaluations, exception, stage_log, fixed_vars>>

analyze_performances_return ==
    /\ pc = "analyze_performances"
    /\ loop_i > Len(ToAnalyze)
    /\ video_analyses' = loop_analyses
    /\ pc' = NextNode(pc)
    /\ stage_log' = Append(stage_log, StageDone(pc, FALSE))
    /\ loop_i' = 0
    /\ loop_analyses' = <<>>
    /\ UNCHANGED <<outcome, performances_collected, reviews_collected,
                   pianist_evaluations, final_analysis, iteration, errors, loop_names,
                   loop_evaluations, llm_log, deviations, exception, fixed_vars>>

(***************************************************************************)
(* Node evaluate_pianists: the grouping (loop_i = 0), one iteration of the *)
(* loop over the groups, and the return.                                   *)
(***************************************************************************)
group_analyses ==
    /\ pc = "evaluate_pianists"
    /\ loop_i = 0
    /\ loop_names' = GroupNames(video_analyses)
    /\ loop_i' = 1
    /\ UNCHANGED <<pc, outcome, performances_collected, reviews_collected,
                   video_analyses, pianist_evaluations, final_analysis, iteration, errors,
                   loop_analyses, loop_evaluations, llm_log, deviations, exception,
                   stage_log, fixed_vars>>

\* a pianist whose evaluation fails validation is entered all the same
EvaluationsAfter_Mutant(evaluations, pianist_name, analyses, performances, unique, answer) ==
    IF answer = "text"
    THEN Append(evaluations, PianistEvaluation(pianist_name, analyses, performances, unique))
    ELSE evaluations

\* one iteration of the loop of _evaluate_pianists once the call for the
\* narrative is issued: the local dict after it; a call that raises and an
\* evaluation that fails validation are caught by the loop and add nothing
EvaluationsAfter(evaluations, pianist_name, analyses, performances, unique, answer) ==
    IF answer = "text" /\ Validates(Averages(analyses))
    THEN Append(evaluations, PianistEvaluation(pianist_name, analyses, performances, unique))
    ELSE evaluations

create_pianist_evaluation ==
    /\ pc = "evaluate_pianists"
    /\ loop_i >= 1
    /\ loop_i <= Len(loop_names)
    /\ LET pianist_name == loop_names[loop_i]
           analyses == GroupOf(video_analyses, pianist_name)
       IN IF RaisesBeforeLLM(pianist_name, analyses, performances_collected) \/ ~LLMAvailable
          THEN \* the loop prints and goes on
               UNCHANGED <<loop_evaluations, llm_log, deviations>>
          ELSE \E answer \in NarrativeAnswers, unique \in UniqueLists(analyses) :
                /\ llm_log' = LogCall("detail", pianist_name, <<>>, answer)
                /\ deviations' = IF answer = "raise" THEN deviations + 1 ELSE deviations
                /\ loop_evaluations' =
                        EvaluationsAfter(loop_evaluations, pianist_name, analyses,
                                         performances_collected, unique, answer)
    /\ loop_i' = loop_i + 1
    /\ UNCHANGED <<pc, outcome, performances_collected, reviews_collected,
                   video_analyses, pianist_evaluations, final_analysis, iteration, errors,
                   loop_names, loop_analyses, exception, stage_log, fixed_vars>>

evaluate_pianists_return ==
    /\ pc = "evaluate_pianists"
    /\ loop_i >= 1
    /\ loop_i > Len(loop_names)
    /\ pianist_evaluations' = loop_evaluations
    /\ pc' = NextNode(pc)
    /\ stage_log' = Append(stage_log, StageDone(pc, FALSE))
    /\ loop_i' = 1
    /\ loop_names' = <<>>
    /\ loop_evaluations' = <<>>
    /\ UNCHANGED <<outcome, performances_collected, reviews_collected,
                   video_analyses, final_analysis, iteration, errors, loop_analyses,
                   llm_log, deviations, exception, fixed_vars>>

(***************************************************************************)
(* Node predict_winners.                                                   *)
(***************************************************************************)
predict_winners ==
    /\ pc = "predict_winners"
    /\ IF pianist_evaluations = <<>>
       THEN /\ final_analysis' = <<EmptyResponse>>
            /\ pc' = NextNode(pc)
            /\ stage_log' = Append(stage_log, StageDone(pc, FALSE))
            /\ UNCHANGED <<outcome, exception, llm_log, deviations>>
       ELSE IF ~LLMAvailable
       THEN \* self.llm raises inside _generate_overall_analysis
            /\ outcome' = "raised"
            /\ exception' = <<NodeRaised(pc)>>
            /\ pc' = "END"
            /\ stage_log' = Append(stage_log, StageDone(pc, TRUE))
            /\ UNCHANGED <<final_analysis, llm_log, deviations>>
       ELSE \E answer \in NarrativeAnswers :
            /\ llm_log' = LogCall("overall", "top_10", <<>>, answer)
            /\ deviations' = IF answer = "raise" THEN deviations + 1 ELSE deviations
            /\ IF answer = "raise"
               THEN \* nothing catches it: the node, the graph and analyze() raise
                    /\ outcome' = "raised"
                    /\ exception' = <<NodeRaised(pc)>>
                    /\ pc' = "END"
                    /\ stage_log' = Append(stage_log, StageDone(pc, TRUE))
                    /\ UNCHANGED final_analysis
               ELSE /\ final_analysis' =
                          <<RankedResponse(pianist_evaluations,
                                Len(performances_collected) + Len(reviews_collected))>>
                    /\ pc' = NextNode(pc)
                    /\ stage_log' = Append(stage_log, StageDone(pc, FALSE))
                    /\ UNCHANGED <<outcome, exception>>
    /\ UNCHANGED <<performances_collected, reviews_collected, video_analyses,
                   pianist_evaluations, iteration, errors, loop_vars, fixed_vars>>

(***************************************************************************)
(* analyze(): what it does with the state the graph ends in.               *)
(***************************************************************************)
analyze_return ==
    /\ pc = "END"
    /\ outcome = "pending"
    /\ IF final_analysis # <<>>
       THEN /\ outcome' = "returned"
            /\ UNCHANGED exception
       ELSE /\ outcome' = "raised"
            /\ exception' = <<AnalysisFailed(errors)>>
    /\ UNCHANGED <<pc, performances_collected, reviews_collected, video_analyses,
                   pianist_evaluations, final_analysis, iteration, errors, loop_vars,
                   llm_log, deviations, stage_log, fixed_vars>>

Next ==
    \/ collect_performances
    \/ collect_reviews
    \/ analyze_single_performance
    \/ analyze_performances_return
    \/ group_analyses
    \/ create_pianist_evaluation
    \/ evaluate_pianists_return
    \/ predict_winners
    \/ analyze_return

Spec == Init /\ [][Next]_vars

\* what a drawn state shares with a run out of Init: nothing returned yet,
\* no loop under way, no LLM call issued
Idle ==
    /\ outcome = "pending"
    /\ final_analysis = <<>>
    /\ iteration = 1
    /\ errors = <<>>
    /\ loop_names = <<>>
    /\ loop_analyses = <<>>
    /\ loop_evaluations = <<>>
    /\ llm_log = <<>>
    /\ deviations = 0
    /\ sources = [SourcesWith(0, 0, 0, {}, {}) EXCEPT !.youtube = performances_collected]
    /\ request = DefaultRequest
    /\ exception = <<>>
    /\ stage_log = StagesBefore(pc)
    /\ parked = <<>>
    /\ in_flight = {}

(***************************************************************************)
(* SpecCap: the run from analyze_performances on, over a drawn collection  *)
(* of about AnalysisCap performances and an LLM that either answers        *)
(* nominally, raises or returns text that is no JSON.                      *)
(***************************************************************************)
\* collections around the cap, every performance by another pianist
LargeCollections ==
    { YoutubePerformances(n, 1) : n \in (AnalysisCap - CapBelow)..(AnalysisCap + CapBeyond) }

InitCap ==
    /\ pc = "analyze_performances"
    /\ api_key \in BOOLEAN
    /\ performances_collected \in LargeCollections
    /\ reviews_collected = <<>>
    /\ video_analyses = <<>>
    /\ pianist_evaluations = <<>>
    /\ Idle
    /\ loop_i = 1
    /\ llm_faults = {CallRaises, TextAnswer}

NextCap ==
    \/ analyze_single_performance
    \/ analyze_performances_return
    \/ group_analyses
    \/ create_pianist_evaluation
    \/ evaluate_pianists_return
    \/ predict_winners
    \/ analyze_return

SpecCap == InitCap /\ [][NextCap]_vars

(***************************************************************************)
(* SpecRank: predict_winners and the return of analyze() over a drawn set  *)
(* of evaluations, one per pianist, each built by PianistEvaluation from   *)
(* one well-formed analysis.                                               *)
(***************************************************************************)
\* the weighted scores the drawn pianists have, five of seven at 8.5 or above
RankLevels == <<92, 86, 85, 85, 84, 70, 86>>

\* the score of the i-th pianist: the levels taken in steps of a, from b on
DrawnLevel(i, a, b) == RankLevels[((a * i + b) % Len(RankLevels)) + 1]

DrawnAnalyses(n, a, b) ==
    [i \in 1..n |->
        ParsedAnalysis(YoutubePerformances(n, 1)[i], JsonAnswer(Uniform(DrawnLevel(i, a, b))))]

DrawnEvaluations(n, a, b) ==
    [i \in 1..n |->
        PianistEvaluation(Roster[i], <<DrawnAnalyses(n, a, b)[i]>>, YoutubePerformances(n, 1),
                          [strengths |-> <<>>, weaknesses |-> <<>>])]

InitRank ==
    /\ pc = "predict_winners"
    /\ api_key = TRUE
    /\ \E n \in 0..MaxRanked, a \in 0..(Len(RankLevels) - 1), b \in 0..(Len(RankLevels) - 1) :
        /\ performances_collected = YoutubePerformances(n, 1)
        /\ video_analyses = DrawnAnalyses(n, a, b)
        /\ pianist_evaluations = DrawnEvaluations(n, a, b)
    /\ reviews_collected = <<>>
    /\ Idle
    /\ loop_i = 1
    /\ llm_faults = {}

NextRank ==
    \/ predict_winners
    \/ analyze_return

SpecRank == InitRank /\ [][NextRank]_vars

(***************************************************************************)
(* SpecScore: evaluate_pianists over one drawn analysis of one pianist.    *)
(***************************************************************************)
\* sub-scores close to one another: a base score, each dimension one tenth
\* below it, at it or one tenth above it
NearUniformBodies ==
    { [d \in DimSet |-> Scored(base + jitter[d])] :
        base \in 0..MaxScore, jitter \in [DimSet -> {0 - 1, 0, 1}] }

\* sub-scores far from one another: each dimension 0.0, 5.0 or 10.0
SpreadBodies ==
    { [d \in DimSet |-> Scored(pick[d])] : pick \in [DimSet -> {FieldMin, 50, FieldMax}] }

InitScore ==
    /\ pc = "evaluate_pianists"
    /\ api_key = TRUE
    /\ performances_collected = YoutubePerformances(1, 1)
    /\ \E body \in NearUniformBodies \cup SpreadBodies :
        video_analyses = <<ParsedAnalysis(YoutubePerformances(1, 1)[1], JsonAnswer(body))>>
    /\ reviews_collected = <<>>
    /\ pianist_evaluations = <<>>
    /\ Idle
    /\ loop_i = 0
    /\ llm_faults = {}

NextScore ==
    \/ group_analyses
    \/ create_pianist_evaluation
    \/ evaluate_pianists_return

SpecScore == InitScore /\ [][NextScore]_vars

(***************************************************************************)
(* SpecCollect: the two collection nodes over sources of which any may     *)
(* fail, with an HTTP client that either opens or fails.                   *)
(***************************************************************************)
SourcesFailing ==
    { [SourcesWith(nw, ny, nr, wf, nf) EXCEPT !.http_client = c] :
        nw \in 0..MaxWeb, ny \in 0..MaxYt, nr \in 0..MaxReviews,
        wf \in SUBSET (1..NumCompetitionSources), nf \in SUBSET (1..NumNewsSources),
        c \in {"opens", "fails"} }

InitCollect ==
    /\ pc = "collect_performances"
    /\ outcome = "pending"
    /\ api_key = TRUE
    /\ performances_collected = <<>>
    /\ reviews_collected = <<>>
    /\ video_analyses = <<>>
    /\ pianist_evaluations = <<>>
    /\ final_analysis = <<>>
    /\ iteration = 0
    /\ errors = <<>>
    /\ loop_i = 1
    /\ loop_names = <<>>
    /\ loop_analyses = <<>>
    /\ loop_evaluations = <<>>
    /\ llm_log = <<>>
    /\ deviations = 0
    /\ llm_faults = {}
    /\ sources \in SourcesFailing
    /\ request = DefaultRequest
    /\ exception = <<>>
    /\ stage_log = <<>>
    /\ parked = <<>>
    /\ in_flight = {}

NextCollect ==
    \/ collect_performances
    \/ collect_reviews

SpecCollect == InitCollect /\ [][NextCollect]_vars

(***************************************************************************)
(* SpecPrompt: _analyze_single_performance for one performance of pianist  *)
(* "A" over a drawn review corpus.                                         *)
(***************************************************************************)
\* contents a review can have: the name in lower case, the name in capitals
\* inside other text, and text without the name
ReviewContents == {<<"a">>, <<"B", "A">>, <<"B">>}

\* corpora of up to MaxCorpus reviews, all found on the first news source
Corpora ==
    UNION { { [k \in 1..n |-> [title |-> k, content |-> contents[k], source |-> 1]] :
                contents \in [1..n -> ReviewContents] } : n \in 0..MaxCorpus }

InitPrompt ==
    /\ pc = "analyze_performances"
    /\ outcome = "pending"
    /\ api_key \in BOOLEAN
    /\ performances_collected = YoutubePerformances(1, 1)
    /\ reviews_collected \in Corpora
    /\ video_analyses = <<>>
    /\ pianist_evaluations = <<>>
    /\ final_analysis = <<>>
    /\ iteration = 1
    /\ errors = <<>>
    /\ loop_i = 1
    /\ loop_names = <<>>
    /\ loop_analyses = <<>>
    /\ loop_evaluations = <<>>
    /\ llm_log = <<>>
    /\ deviations = 0
    /\ llm_faults = {CallRaises, TextAnswer}
    /\ sources = [SourcesWith(0, 0, 0, {}, {}) EXCEPT
                    !.youtube = performances_collected,
                    !.news_pages = [s \in 1..NumNewsSources |->
                                        IF s = 1 THEN reviews_collected ELSE <<>>]]
    /\ request = DefaultRequest
    /\ exception = <<>>
    /\ stage_log = StagesBefore(pc)
    /\ parked = <<>>
    /\ in_flight = {}

NextPrompt ==
    \/ analyze_single_performance
    \/ analyze_performances_return

SpecPrompt == InitPrompt /\ [][NextPrompt]_vars

(***************************************************************************)
(* SpecGroup: evaluate_pianists over drawn analyses whose names are equal,  *)
(* differ in case only, or are empty.                                      *)
(***************************************************************************)
\* names the website collector can extract: get_text(strip=True) of the name
\* element, which is the empty string for an empty element
GroupedNames == {"A", "a", ""}

\* website records with the drawn names
NamedPerformances(names) ==
    [k \in 1..Len(names) |-> [WebsitePerformances(k)[k] EXCEPT !.pianist_name = names[k]]]

\* what the scoring call of one performance was answered with
GroupedAnswers ==
    {TextAnswer, JsonAnswer(Uniform(80)),
     JsonAnswer([Uniform(60) EXCEPT !["repertoire"] = Absent])}

InitGroup ==
    /\ pc = "evaluate_pianists"
    /\ outcome = "pending"
    /\ api_key = TRUE
    /\ \E n \in 0..MaxGrouped :
        \E names \in [1..n -> GroupedNames], answers \in [1..n -> GroupedAnswers] :
            /\ performances_collected = NamedPerformances(names)
            /\ video_analyses =
                    [k \in 1..n |-> AnalysisOf(NamedPerformances(names)[k], answers[k])]
    /\ reviews_collected = <<>>
    /\ pianist_evaluations = <<>>
    /\ final_analysis = <<>>
    /\ iteration = 1
    /\ errors = <<>>
    /\ loop_i = 0
    /\ loop_names = <<>>
    /\ loop_analyses = <<>>
    /\ loop_evaluations = <<>>
    /\ llm_log = <<>>
    /\ deviations = MaxDeviations
    /\ llm_faults = {}
    /\ sources = [SourcesWith(0, 0, 0, {}, {}) EXCEPT
                    !.web_pages = [s \in 1..NumCompetitionSources |->
                                    LET OnSource(p) == p.source = s
                                    IN SelectSeq(performances_collected, OnSource)]]
    /\ request = DefaultRequest
    /\ exception = <<>>
    /\ stage_log = StagesBefore(pc)
    /\ parked = <<>>
    /\ in_flight = {}

NextGroup ==
    \/ group_analyses
    \/ create_pianist_evaluation
    \/ evaluate_pianists_return

SpecGroup == InitGroup /\ [][NextGroup]_vars

(***************************************************************************)
(* SpecFlight: the loop of _analyze_performances with every scoring call   *)
(* in two steps, the call being issued and its answer coming back.         *)
(***************************************************************************)
\* asyncio.gather over the rest of the list: all calls issued together
IssuedTogether_Mutant ==
    {ToAnalyze[k].id : k \in loop_i..Len(ToAnalyze)}

\* what one pass of the for loop awaits: the call for one performance
IssuedTogether == {ToAnalyze[loop_i].id}

\* await self._analyze_single_performance(...): the call is issued and the
\* loop is suspended
issue_scoring_call ==
    /\ pc = "analyze_performances"
    /\ loop_i <= Len(ToAnalyze)
    /\ in_flight = {}
    /\ LLMAvailable
    /\ in_flight' = IssuedTogether
    /\ UNCHANGED <<pc, outcome, api_key, performances_collected, reviews_collected,
                   video_analyses, pianist_evaluations, final_analysis, iteration, errors,
                   loop_vars, llm_log, deviations, llm_faults, sources, request,
                   exception, stage_log, parked>>

\* a call in flight comes back, with an answer or an exception, and the loop
\* goes on from there
scoring_call_returns ==
    /\ pc = "analyze_performances"
    /\ \E id \in in_flight :
        LET performance == CHOOSE p \in Range(ToAnalyze) : p.id = id IN
        \E answer \in ScoringAnswers(performance.pianist_name) :
            /\ llm_log' = LogCall("score", performance.id,
                                  ReviewsInPrompt(performance.pianist_name,
                                                  reviews_collected),
                                  answer.kind)
            /\ deviations' = IF answer = NominalAnswer(performance.pianist_name)
                             THEN deviations ELSE deviations + 1
            /\ loop_analyses' = AnalysesAfter(loop_analyses, performance, answer)
            /\ in_flight' = in_flight \ {id}
    /\ loop_i' = loop_i + 1
    /\ UNCHANGED <<pc, outcome, api_key, performances_collected, reviews_collected,
                   video_analyses, pianist_evaluations, final_analysis, iteration, errors,
                   loop_names, loop_evaluations, llm_faults, sources, request,
                   exception, stage_log, parked>>

InitFlight ==
    /\ pc = "analyze_performances"
    /\ api_key = TRUE
    /\ \E n \in 0..MaxFlight : performances_collected = YoutubePerformances(n, 1)
    /\ reviews_collected = <<>>
    /\ video_analyses = <<>>
    /\ pianist_evaluations = <<>>
    /\ Idle
    /\ loop_i = 1
    /\ llm_faults = {CallRaises, TextAnswer}

NextFlight ==
    \/ issue_scoring_call
    \/ scoring_call_returns
    \/ analyze_performances_return

SpecFlight == InitFlight /\ [][NextFlight]_vars

(***************************************************************************)
(* SpecEntries: evaluate_pianists for one pianist whose analyses name      *)
(* strengths and weaknesses.                                               *)
(***************************************************************************)
\* the strengths an analysis can name
EntryNames == [k \in 1..MaxEntries |-> k]

\* a parsed analysis whose JSON object has the two list fields
ListedAnalysis(performance, strengths, weaknesses) ==
    ParsedAnalysis(performance, JsonAnswer(Uniform(80)))
        @@ [strengths |-> strengths, weaknesses |-> weaknesses]

\* two performances of pianist "A"
TwoPerformances ==
    <<WebsitePerformances(1)[1],
      [YoutubePerformances(1, 1)[1] EXCEPT !.pianist_name = "A"]>>

\* the first analysis names the first strengths of the list; the second
\* names none, one twice, or the last of the list; each names no weakness,
\* one weakness twice, or two weaknesses
InitEntries ==
    /\ pc = "evaluate_pianists"
    /\ outcome = "pending"
    /\ api_key = TRUE
    /\ performances_collected = TwoPerformances
    /\ \E i \in 0..MaxEntries :
        \E second \in {<<>>, <<1, 1>>, <<MaxEntries>>} :
        \E weak \in {<<>>, <<"w", "w">>, <<"w", "v">>} :
            video_analyses =
                <<ListedAnalysis(TwoPerformances[1], SubSeq(EntryNames, 1, i), weak),
                  ListedAnalysis(TwoPerformances[2], second, <<>>)>>
    /\ reviews_collected = <<>>
    /\ pianist_evaluations = <<>>
    /\ final_analysis = <<>>
    /\ iteration = 1
    /\ errors = <<>>
    /\ loop_i = 0
    /\ loop_names = <<>>
    /\ loop_analyses = <<>>
    /\ loop_evaluations = <<>>
    /\ llm_log = <<>>
    /\ deviations = MaxDeviations
    /\ llm_faults = {}
    /\ sources = [SourcesWith(1, 0, 0, {}, {}) EXCEPT !.youtube = <<TwoPerformances[2]>>]
    /\ request = DefaultRequest
    /\ exception = <<>>
    /\ stage_log = StagesBefore(pc)
    /\ parked = <<>>
    /\ in_flight = {}

NextEntries ==
    \/ group_analyses
    \/ create_pianist_evaluation
    \/ evaluate_pianists_return

SpecEntries == InitEntries /\ [][NextEntries]_vars

(***************************************************************************)
(* SpecEndpoint: a request to one of the endpoints that run the pipeline,  *)
(* with or without an API key.                                             *)
(***************************************************************************)
\* the routes of main.py that call agent.analyze()
Endpoints ==
    {"/analyze", "/pianist/{name}", "/rankings", "/predictions", "/compare", "/statistics"}

\* the route handler up to its call of agent.analyze(): only
\* analyze_competition looks at the key first
endpoint_called ==
    /\ pc = "endpoint"
    /\ IF request.endpoint = "/analyze" /\ ~api_key
       THEN /\ outcome' = "rejected"
            /\ exception' = <<[raised_by |-> "analyze_competition",
                              status |-> ServiceUnavailable]>>
            /\ pc' = "END"
       ELSE /\ pc' = NodeOrder[1]
            /\ UNCHANGED <<outcome, exception>>
    /\ UNCHANGED <<performances_collected, reviews_collected, video_analyses,
                   pianist_evaluations, final_analysis, iteration, errors, loop_vars,
                   llm_log, deviations, stage_log, fixed_vars>>

InitEndpoint ==
    /\ pc = "endpoint"
    /\ outcome = "pending"
    /\ api_key \in BOOLEAN
    /\ performances_collected = <<>>
    /\ reviews_collected = <<>>
    /\ video_analyses = <<>>
    /\ pianist_evaluations = <<>>
    /\ final_analysis = <<>>
    /\ iteration = 0
    /\ errors = <<>>
    /\ loop_i = 1
    /\ loop_names = <<>>
    /\ loop_analyses = <<>>
    /\ loop_evaluations = <<>>
    /\ llm_log = <<>>
    /\ deviations = MaxDeviations
    /\ llm_faults = {}
    /\ sources \in SourcesFound
    /\ \E endpoint \in Endpoints :
        request = [pianist_name |-> None, lookback_days |-> DefaultLookbackDays,
                   endpoint |-> endpoint]
    /\ exception = <<>>
    /\ stage_log = <<>>
    /\ parked = <<>>
    /\ in_flight = {}

NextEndpoint ==
    \/ endpoint_called
    \/ collect_performances
    \/ collect_reviews
    \/ analyze_single_performance
    \/ analyze_performances_return
    \/ group_analyses
    \/ create_pianist_evaluation
    \/ evaluate_pianists_return
    \/ predict_winners
    \/ analyze_return

SpecEndpoint == InitEndpoint /\ [][NextEndpoint]_vars

(***************************************************************************)
(* SpecRequest: the whole pipeline as POST /analyze runs it, the arguments *)
(* of analyze() drawn from the request; the API key is set (the endpoint   *)
(* answers 503 without it) and every LLM call gets its nominal answer.     *)
(***************************************************************************)
\* agent.analyze(pianist_name=request.pianist_name,
\*               lookback_days=request.lookback_days)
Requests ==
    { [pianist_name |-> n, lookback_days |-> d] :
        n \in {None, Roster[1], Roster[2]}, d \in {ShortLookbackDays, DefaultLookbackDays} }

InitRequest ==
    /\ pc = "collect_performances"
    /\ outcome = "pending"
    /\ api_key = TRUE
    /\ performances_collected = <<>>
    /\ reviews_collected = <<>>
    /\ video_analyses = <<>>
    /\ pianist_evaluations = <<>>
    /\ final_analysis = <<>>
    /\ iteration = 0
    /\ errors = <<>>
    /\ loop_i = 1
    /\ loop_names = <<>>
    /\ loop_analyses = <<>>
    /\ loop_evaluations = <<>>
    /\ llm_log = <<>>
    /\ deviations = MaxDeviations
    /\ llm_faults = {}
    /\ sources \in SourcesFound
    /\ request \in Requests
    /\ exception = <<>>
    /\ stage_log = <<>>
    /\ parked = <<>>
    /\ in_flight = {}

SpecRequest == InitRequest /\ [][Next]_vars

(***************************************************************************)
(* SpecRuns: two calls of analyze() on the one agent of main.py, each for  *)
(* its own request.  The event loop runs one coroutine at a time; at an    *)
(* await it may go on with the other call.  The variables hold the state   *)
(* and the locals of the call that is running, parked those of the call    *)
(* that is suspended.  A switch is allowed between any two steps, which    *)
(* includes every await.  Every LLM call gets its nominal answer.          *)
(***************************************************************************)
\* the AgentState of the running call and the locals of its coroutines
RunState ==
    [pc |-> pc, outcome |-> outcome, request |-> request, exception |-> exception,
     stage_log |-> stage_log, performances_collected |-> performances_collected,
     reviews_collected |-> reviews_collected, video_analyses |-> video_analyses,
     pianist_evaluations |-> pianist_evaluations, final_analysis |-> final_analysis,
     iteration |-> iteration, errors |-> errors, loop_i |-> loop_i,
     loop_names |-> loop_names, loop_analyses |-> loop_analyses,
     loop_evaluations |-> loop_evaluations, llm_log |-> llm_log]

\* initial_state = AgentState() of a call that has not taken a step
FreshRun(req) ==
    [pc |-> "collect_performances", outcome |-> "pending", request |-> req,
     exception |-> <<>>, stage_log |-> <<>>, performances_collected |-> <<>>,
     reviews_collected |-> <<>>, video_analyses |-> <<>>, pianist_evaluations |-> <<>>,
     final_analysis |-> <<>>, iteration |-> 0, errors |-> <<>>, loop_i |-> 1,
     loop_names |-> <<>>, loop_analyses |-> <<>>, loop_evaluations |-> <<>>,
     llm_log |-> <<>>]

\* the errors list is one object that both AgentStates refer to
Resumed_Mutant == [parked[1] EXCEPT !.errors = errors]

\* what the suspended call finds when it goes on: its own state and locals
Resumed == parked[1]

\* the event loop suspends the running call and goes on with the other
switch ==
    /\ parked # <<>>
    /\ parked[1].outcome = "pending"
    /\ parked' = <<RunState>>
    /\ pc' = Resumed.pc
    /\ outcome' = Resumed.outcome
    /\ request' = Resumed.request
    /\ exception' = Resumed.exception
    /\ stage_log' = Resumed.stage_log
    /\ performances_collected' = Resumed.performances_collected
    /\ reviews_collected' = Resumed.reviews_collected
    /\ video_analyses' = Resumed.video_analyses
    /\ pianist_evaluations' = Resumed.pianist_evaluations
    /\ final_analysis' = Resumed.final_analysis
    /\ iteration' = Resumed.iteration
    /\ errors' = Resumed.errors
    /\ loop_i' = Resumed.loop_i
    /\ loop_names' = Resumed.loop_names
    /\ loop_analyses' = Resumed.loop_analyses
    /\ loop_evaluations' = Resumed.loop_evaluations
    /\ llm_log' = Resumed.llm_log
    /\ UNCHANGED <<api_key, llm_faults, sources, deviations, in_flight>>

InitRuns ==
    /\ pc = "collect_performances"
    /\ outcome = "pending"
    /\ api_key = TRUE
    /\ performances_collected = <<>>
    /\ reviews_collected = <<>>
    /\ video_analyses = <<>>
    /\ pianist_evaluations = <<>>
    /\ final_analysis = <<>>
    /\ iteration = 0
    /\ errors = <<>>
    /\ loop_i = 1
    /\ loop_names = <<>>
    /\ loop_analyses = <<>>
    /\ loop_evaluations = <<>>
    /\ llm_log = <<>>
    /\ deviations = MaxDeviations
    /\ llm_faults = {}
    /\ sources \in SourcesFound
    /\ request = DefaultRequest
    /\ exception = <<>>
    /\ stage_log = <<>>
    /\ parked = <<FreshRun(DefaultRequest)>>
    /\ in_flight = {}

NextRuns ==
    \/ collect_performances
    \/ collect_reviews
    \/ analyze_single_performance
    \/ analyze_performances_return
    \/ group_analyses
    \/ create_pianist_evaluation
    \/ evaluate_pianists_return
    \/ predict_winners
    \/ analyze_return
    \/ switch

SpecRuns == InitRuns /\ [][NextRuns]_vars

(***************************************************************************)
(* Properties.                                                             *)
(***************************************************************************)
HasResult == final_analysis # <<>>
Result == final_analysis[1]

\* place of a pianist in the dict pianist_evaluations
EvalIndex(name) ==
    CHOOSE i \in 1..Len(pianist_evaluations) : pianist_evaluations[i].pianist_name = name

\* place of the first analysis of a pianist in video_analyses
FirstAnalysisIndex(name) ==
    CHOOSE i \in 1..Len(video_analyses) :
        /\ video_analyses[i].pianist_name = name
        /\ \A j \in 1..(i - 1) : video_analyses[j].pianist_name # name

\* the scoring calls issued so far
ScoringCalls == LET IsScore(c) == c.call = "score" IN SelectSeq(llm_log, IsScore)

\* the analysis records made so far in this run
AnalysesSoFar == IF pc = "analyze_performances" THEN loop_analyses ELSE video_analyses

\* C1: analyze() never ends by raising, whatever the collectors and the LLM
\* calls do; in particular not when the top-10 overview call of
\* predict_winners raises after earlier LLM calls succeeded.
C1_AnalyzeNeverRaises == outcome # "raised"

\* C2: a result made from no evaluation has evaluated_pianists,
\* top_10_predictions, predicted_finalists and dark_horses empty,
\* predicted_winner "No data available" and confidence 0.0; a result made
\* from at least one evaluation has confidence 0.75.
C2_ZeroEvaluationResult ==
    HasResult =>
        /\ Len(pianist_evaluations) = 0 =>
            /\ Len(Result.evaluated_pianists) = 0
            /\ Len(Result.top_10_predictions) = 0
            /\ Len(Result.predicted_finalists) = 0
            /\ Len(Result.dark_horses) = 0
            /\ Result.predicted_winner = "No data available"
            /\ Result.confidence = 0
        /\ Len(pianist_evaluations) > 0 => Result.confidence = 75

\* C2 witness: performances were collected, none was evaluated, and the
\* placeholder result is there.
C2_Witness ==
    /\ HasResult
    /\ Len(performances_collected) > 0
    /\ Len(pianist_evaluations) = 0
    /\ outcome = "returned"

\* C3: evaluated_pianists is ordered by weighted_score non-increasing, and
\* two pianists of equal weighted_score stand in the order of their
\* insertion into pianist_evaluations, which is the order in which they are
\* first met in video_analyses.
C3_RankingStable ==
    HasResult =>
        LET r == Result.evaluated_pianists IN
        \A i, j \in 1..Len(r) :
            i < j =>
                /\ FracGeq(r[i].weighted_score, r[j].weighted_score)
                /\ FracEq(r[i].weighted_score, r[j].weighted_score) =>
                    /\ EvalIndex(r[i].pianist_name) < EvalIndex(r[j].pianist_name)
                    /\ FirstAnalysisIndex(r[i].pianist_name)
                            < FirstAnalysisIndex(r[j].pianist_name)

\* C3 witness: a ranking with two pianists of equal score that differs from
\* the insertion order.
C3_Witness ==
    /\ HasResult
    /\ LET r == Result.evaluated_pianists IN
        /\ \E i \in 1..(Len(r) - 1) : FracEq(r[i].weighted_score, r[i + 1].weighted_score)
        /\ \E i \in 1..Len(r) : r[i].pianist_name # pianist_evaluations[i].pianist_name

\* C4: when a pianist was evaluated, predicted_winner is the pianist of
\* rank 1 and no evaluated pianist has a larger weighted_score; for
\* A(9.2), B(8.6), C(7.0) the winner is A, the finalists are A, B, C and
\* there is no dark horse.
C4_WinnerIsBest ==
    (HasResult /\ Len(pianist_evaluations) > 0) =>
        /\ Result.predicted_winner = Result.evaluated_pianists[1].pianist_name
        /\ \A i \in 1..Len(pianist_evaluations) :
            FracGeq(pianist_evaluations[EvalIndex(Result.predicted_winner)].weighted_score,
                    pianist_evaluations[i].weighted_score)
        /\ ( /\ NamesOf(pianist_evaluations) = <<"A", "B", "C">>
             /\ FracEq(pianist_evaluations[1].weighted_score, Frac(92, 1))
             /\ FracEq(pianist_evaluations[2].weighted_score, Frac(86, 1))
             /\ FracEq(pianist_evaluations[3].weighted_score, Frac(70, 1)) )
           => /\ Result.predicted_winner = "A"
              /\ Result.predicted_finalists = <<"A", "B", "C">>
              /\ Result.dark_horses = <<>>

\* C4 witness: the result for A(9.2), B(8.6), C(7.0).
C4_Witness ==
    /\ HasResult
    /\ NamesOf(pianist_evaluations) = <<"A", "B", "C">>
    /\ FracEq(pianist_evaluations[1].weighted_score, Frac(92, 1))
    /\ FracEq(pianist_evaluations[2].weighted_score, Frac(86, 1))
    /\ FracEq(pianist_evaluations[3].weighted_score, Frac(70, 1))
    /\ Result.predicted_winner = "A"

\* C5: top_10_predictions has min(10, n) entries, the names of the first
\* ranks in order, n the number of evaluated pianists; predicted_finalists
\* has min(6, len(top_10_predictions)) entries, the first of the top 10.
C5_TopAndFinalists ==
    HasResult =>
        LET n == Len(pianist_evaluations)
            top == Result.top_10_predictions
            fin == Result.predicted_finalists
        IN /\ Len(Result.evaluated_pianists) = n
           /\ Len(top) = Min(10, n)
           /\ \A i \in 1..Len(top) : top[i] = Result.evaluated_pianists[i].pianist_name
           /\ Len(fin) = Min(6, Len(top))
           /\ \A i \in 1..Len(fin) : fin[i] = top[i]

\* C5 witness: more than ten pianists, ten predictions, six finalists.
C5_Witness ==
    /\ HasResult
    /\ Len(pianist_evaluations) > 10
    /\ Len(Result.top_10_predictions) = 10
    /\ Len(Result.predicted_finalists) = 6

\* C6: dark_horses has at most 3 entries, each of them the pianist of a
\* rank from 11 to 20 whose weighted_score is at least 8.5.
C6_DarkHorses ==
    HasResult =>
        LET r == Result.evaluated_pianists
            dark == Result.dark_horses
        IN /\ Len(dark) <= 3
           /\ \A k \in 1..Len(dark) :
                \E rank \in 11..20 :
                    /\ rank <= Len(r)
                    /\ r[rank].pianist_name = dark[k]
                    /\ FracGeq(r[rank].weighted_score, Frac(85, 1))

\* C6 witness: three dark horses, a fourth pianist of the ranks 11 to 20
\* reaches 8.5 and is left out, and a pianist of these ranks is below 8.5.
C6_Witness ==
    /\ HasResult
    /\ Len(Result.dark_horses) = 3
    /\ LET r == Result.evaluated_pianists IN
        /\ \E rank \in 14..20 :
            rank <= Len(r) /\ FracGeq(r[rank].weighted_score, Frac(85, 1))
        /\ \E rank \in 11..20 :
            rank <= Len(r) /\ ~FracGeq(r[rank].weighted_score, Frac(85, 1))

\* every PianistEvaluation made so far in this run
AllEvaluations == Range(loop_evaluations) \cup Range(pianist_evaluations)

\* C7: a weighted score of at least 9.0 gives OUTSTANDING with
\* win_probability 0.8, one in [8.5, 9.0) EXCELLENT with 0.5, one in
\* [7.5, 8.5) GOOD with 0.2, one in [6.0, 7.5) AVERAGE with 0.05, one below
\* 6.0 ELIMINATED with 0.01; each lower bound belongs to its bucket.
C7_Buckets ==
    \A e \in AllEvaluations :
        LET AtLeast(t) == FracGeq(e.weighted_score, Frac(t, 1)) IN
        /\ AtLeast(90)
            => (e.performance_level = "outstanding" /\ e.win_probability = 80)
        /\ (AtLeast(85) /\ ~AtLeast(90))
            => (e.performance_level = "excellent" /\ e.win_probability = 50)
        /\ (AtLeast(75) /\ ~AtLeast(85))
            => (e.performance_level = "good" /\ e.win_probability = 20)
        /\ (AtLeast(60) /\ ~AtLeast(75))
            => (e.performance_level = "average" /\ e.win_probability = 5)
        /\ ~AtLeast(60)
            => (e.performance_level = "eliminated" /\ e.win_probability = 1)

\* C7 witness: an evaluation whose weighted score is 9.0 itself, OUTSTANDING.
C7_Witness ==
    \E e \in AllEvaluations :
        /\ FracEq(e.weighted_score, Frac(90, 1))
        /\ e.performance_level = "outstanding"
        /\ e.win_probability = 80

PerformanceIndex(id) ==
    CHOOSE k \in 1..Len(performances_collected) : performances_collected[k].id = id

\* C9: a scoring answer that is no JSON object becomes a record that carries
\* pianist_name, performance_id and the error flag, nothing is raised, and
\* every other performance whose call returned has its own record: one
\* record per returned call, the parsed ones without the error flag.
C9_MalformedKeepsBatch ==
    /\ pc = "analyze_performances" => outcome = "pending"
    /\ LET calls == ScoringCalls
           recs == AnalysesSoFar
           Returned(c) == c.answer # "raise"
       IN /\ Len(recs) = Len(SelectSeq(calls, Returned))
          /\ \A k \in 1..Len(calls) :
                Returned(calls[k]) =>
                    \E i \in 1..Len(recs) :
                        /\ recs[i].performance_id = calls[k].subject
                        /\ recs[i].pianist_name =
                            performances_collected[PerformanceIndex(calls[k].subject)].pianist_name
                        /\ recs[i].error = (calls[k].answer = "text")

\* C9 witness: the node has returned, every performance has its record, one
\* of them is an error stub and a later one is a parsed analysis.
C9_Witness ==
    /\ pc = "evaluate_pianists"
    /\ Len(video_analyses) = Len(performances_collected)
    /\ \E i, j \in 1..Len(video_analyses) :
        i < j /\ video_analyses[i].error /\ ~video_analyses[j].error

\* C10: only the first min(20, n) collected performances are analyzed, in
\* list order: never more than 20 analysis records, never more than 20
\* scoring calls, each call and each record for a performance among the
\* first 20, later ones for later performances, and never more than 20
\* evaluated pianists.
C10_AnalysisCap ==
    LET calls == ScoringCalls
        recs == AnalysesSoFar
    IN /\ Len(recs) <= 20
       /\ Len(calls) <= 20
       /\ Len(calls) <= Len(performances_collected)
       /\ \A k \in 1..Len(calls) : PerformanceIndex(calls[k].subject) = k
       /\ (api_key /\ pc \notin {"collect_performances", "collect_reviews",
                                 "analyze_performances"})
            => Len(calls) = Min(20, Len(performances_collected))
       /\ \A i \in 1..Len(recs) : PerformanceIndex(recs[i].performance_id) <= 20
       /\ \A i \in 1..(Len(recs) - 1) :
            PerformanceIndex(recs[i].performance_id)
                < PerformanceIndex(recs[i + 1].performance_id)
       /\ Len(loop_evaluations) <= 20
       /\ Len(pianist_evaluations) <= 20

\* C10 witness: more than 20 performances were collected, 20 were analyzed
\* and 20 pianists evaluated.
C10_Witness ==
    /\ Len(performances_collected) > 20
    /\ Len(video_analyses) = 20
    /\ Len(pianist_evaluations) = 20
    /\ HasResult

\* the nodes that have ended so far, in the order in which they ended
NodesEnded == [i \in 1..Len(stage_log) |-> stage_log[i].node]

\* C11: the nodes end in the order collect_performances, collect_reviews,
\* analyze_performances, evaluate_pianists, predict_winners, each at most
\* once; the node the graph is at is the one after the nodes that have
\* ended, so none starts before the one before it has ended; and what a
\* node produces is not there before that node runs.
C11_FixedStageOrder ==
    LET order == <<"collect_performances", "collect_reviews", "analyze_performances",
                   "evaluate_pianists", "predict_winners", "END">>
        at == Len(stage_log) + 1
    IN /\ Len(stage_log) <= 5
       /\ \A i \in 1..Len(stage_log) : NodesEnded[i] = order[i]
       /\ pc = order[at]
       /\ at <= 1 => (performances_collected = <<>> /\ iteration = 0)
       /\ at <= 2 => reviews_collected = <<>>
       /\ at <= 3 => video_analyses = <<>>
       /\ at <= 4 => pianist_evaluations = <<>>
       /\ at <= 5 => (final_analysis = <<>> /\ outcome = "pending")
       /\ at # 3 => loop_analyses = <<>>
       /\ at # 4 => (loop_names = <<>> /\ loop_evaluations = <<>>)

\* C11 witness: a run in which all five nodes have ended, each of them having
\* had something to work on, and analyze() has returned.
C11_Witness ==
    /\ pc = "END"
    /\ NodesEnded = <<"collect_performances", "collect_reviews", "analyze_performances",
                      "evaluate_pianists", "predict_winners">>
    /\ Len(performances_collected) > 0
    /\ Len(reviews_collected) > 0
    /\ Len(video_analyses) > 0
    /\ Len(pianist_evaluations) > 0
    /\ outcome = "returned"

\* C12: once analyze() has ended, it has returned the final_analysis of the
\* state if the last node produced one, and it has raised exactly if the
\* run ended with no final_analysis; the exception it raised is the one of
\* analyze() itself, carrying the errors accumulated in the state.
C12_RaisesIffNoResult ==
    outcome # "pending" =>
        /\ HasResult => outcome = "returned"
        /\ outcome = "raised" <=> ~HasResult
        /\ outcome = "raised" =>
            /\ Len(exception) = 1
            /\ exception[1].raised_by = "analyze"
            /\ exception[1].errors = errors

\* C13: when analyze() was called with a pianist_name, the result it
\* returns holds no other pianist in evaluated_pianists and in
\* top_10_predictions; and no performance older than lookback_days days is
\* among the analyzed ones.
C13_RequestScopesAnalysis ==
    (outcome = "returned" /\ HasResult) =>
        /\ request.pianist_name # None =>
            /\ \A i \in 1..Len(Result.evaluated_pianists) :
                Result.evaluated_pianists[i].pianist_name = request.pianist_name
            /\ \A i \in 1..Len(Result.top_10_predictions) :
                Result.top_10_predictions[i] = request.pianist_name
        /\ \A i \in 1..Len(video_analyses) :
            performances_collected[PerformanceIndex(video_analyses[i].performance_id)].age_days
                <= request.lookback_days

\* the error strings the nodes of a run append, by the log of that run
ExpectedErrors(log) ==
    LET Failed(e) == e.raised /\ e.node \in {"collect_performances", "collect_reviews"}
        failed == SelectSeq(log, Failed)
    IN [i \in 1..Len(failed) |->
            IF failed[i].node = "collect_performances" THEN "Performance collection error"
            ELSE "Review collection error"]

\* the run r, active or suspended, has run each node at most once, in
\* order, from an empty state, and everything in its state comes from what
\* its own nodes did: its errors from its own failed collections, its
\* analyses from its own performances, its evaluations from its own
\* analyses, its result from its own evaluations
OwnRun(r) ==
    LET log == r.stage_log
        collected == Len(log) >= 1 /\ ~log[1].raised
        reviewed == Len(log) >= 2 /\ ~log[2].raised
        analyses == r.video_analyses \o r.loop_analyses
        evaluations == r.pianist_evaluations \o r.loop_evaluations
    IN /\ Len(log) <= 5
       /\ \A i \in 1..Len(log) : log[i].node = NodeOrder[i]
       /\ r.pc = NodeOrder[Len(log) + 1]
       /\ r.outcome # "pending" => Len(log) = 5
       /\ r.iteration = (IF collected THEN 1 ELSE 0)
       /\ r.errors = ExpectedErrors(log)
       /\ r.performances_collected =
            (IF collected
             THEN WebsiteCollect(sources.web_pages, sources.web_failing) \o sources.youtube
             ELSE <<>>)
       /\ r.reviews_collected =
            (IF reviewed THEN NewsCollect(sources.news_pages, sources.news_failing)
             ELSE <<>>)
       /\ \A i \in 1..Len(analyses) :
            \E k \in 1..Len(r.performances_collected) :
                /\ r.performances_collected[k].id = analyses[i].performance_id
                /\ r.performances_collected[k].pianist_name = analyses[i].pianist_name
       /\ Len(log) >= 3 => Len(r.video_analyses) = Min(20, Len(r.performances_collected))
       /\ \A i \in 1..Len(evaluations) :
            \E k \in 1..Len(r.video_analyses) :
                r.video_analyses[k].pianist_name = evaluations[i].pianist_name
       /\ r.final_analysis # <<>> =>
            /\ Range(NamesOf(r.final_analysis[1].evaluated_pianists))
                    = Range(NamesOf(r.pianist_evaluations))
            /\ r.final_analysis[1].data_sources_analyzed =
                    (IF r.pianist_evaluations = <<>> THEN 0
                     ELSE Len(r.performances_collected) + Len(r.reviews_collected))

\* C14: each of two calls of analyze() on the shared agent, however their
\* steps interleave, runs the pipeline once from an empty AgentState, and
\* nothing in the state of a call (performances, reviews, analyses,
\* evaluations, errors, final_analysis) comes from the other call.
C14_RunsIsolated ==
    /\ OwnRun(RunState)
    /\ parked # <<>> => OwnRun(parked[1])

\* C14 witness: both calls are under way, one in the loop of
\* evaluate_pianists over the performances it collected, the other in the
\* loop of analyze_performances after its own collection of performances
\* failed.
C14_Witness ==
    /\ parked # <<>>
    /\ pc = "evaluate_pianists"
    /\ loop_i > 1
    /\ Len(loop_evaluations) > 0
    /\ errors = <<>>
    /\ parked[1].pc = "analyze_performances"
    /\ parked[1].performances_collected = <<>>
    /\ Len(parked[1].errors) > 0

\* whether a collection node has ended, and whether by its except branch
NodeEnded(node) == \E i \in 1..Len(stage_log) : stage_log[i].node = node
NodeRaisedIn(node) ==
    \E i \in 1..Len(stage_log) : stage_log[i].node = node /\ stage_log[i].raised

\* the records of the website collector among the collected performances
FromWebsite ==
    LET Web(p) == p.source_type = "competition_website"
    IN SelectSeq(performances_collected, Web)

\* the list got holds what the pages of the sources that did not fail hold,
\* nothing of a failing source, each record once, in the order of the
\* sources and, within a source, in the order of its page
ConcatOfSources(got, pages, failing) ==
    /\ \A i \in 1..Len(got) : got[i].source \notin failing
    /\ \A s \in (1..Len(pages)) \ failing :
        \A k \in 1..Len(pages[s]) :
            \E i \in 1..Len(got) :
                /\ got[i] = pages[s][k]
                /\ \A j \in 1..Len(got) : got[j] = pages[s][k] => j = i
    /\ Len(got) = SumOver([s \in 1..Len(pages) |->
                            IF s \in failing THEN 0 ELSE Len(pages[s])], 1..Len(pages))
    /\ \A i, j \in 1..Len(got) :
        i < j =>
            \/ got[i].source < got[j].source
            \/ /\ got[i].source = got[j].source
               /\ \E k, l \in 1..Len(pages[got[i].source]) :
                    /\ k < l
                    /\ pages[got[i].source][k] = got[i]
                    /\ pages[got[i].source][l] = got[j]

MentionedAt(pianist_name) ==
    { i \in 1..Len(reviews_collected) :
        \E k \in 1..Len(reviews_collected[i].content) :
            SameLetter(reviews_collected[i].content[k], pianist_name) }

\* the scoring calls issued for a performance
CallsScoring(performance) ==
    { i \in 1..Len(llm_log) :
        llm_log[i].call = "score" /\ llm_log[i].subject = performance.id }

\* the reviews of every scoring call are the first three, in corpus order, of
\* the reviews that mention the pianist in either case
FirstThreeMentions ==
    \A i \in 1..Len(llm_log) :
        llm_log[i].call = "score" =>
            \E performance \in Range(performances_collected) :
                /\ performance.id = llm_log[i].subject
                /\ LET at == MentionedAt(performance.pianist_name)
                       shown == llm_log[i].reviews
                   IN /\ Len(shown) = Min(PromptReviews, Cardinality(at))
                      /\ \A j \in 1..Len(shown) :
                            \E m \in at :
                                /\ Cardinality({n \in at : n < m}) = j - 1
                                /\ shown[j] = reviews_collected[m]

\* the performances _analyze_single_performance has been called for
Handled ==
    IF pc = "analyze_performances"
    THEN {ToAnalyze[i] : i \in 1..(loop_i - 1)}
    ELSE IF NodeIndex(pc) > NodeIndex("analyze_performances")
         THEN Range(ToAnalyze)
         ELSE {}

\* C16 as stated: the reviews in the prompt of a performance are the first
\* three, in corpus order, of those whose content contains the pianist's name
\* whatever its case (none when none does), and exactly one LLM call is
\* issued for every performance analysed.
C16_ThreeReviewsOneCall ==
    /\ FirstThreeMentions
    /\ \A performance \in Handled : Cardinality(CallsScoring(performance)) = 1

\* C16 amended: the reviews in the prompt are the first three, in corpus
\* order, of those whose content contains the pianist's name whatever its
\* case (none when none does); exactly one LLM call is issued for the
\* performance when an API key is set, and none when no key is set.
C16_ThreeReviewsOneCallWithKey ==
    /\ FirstThreeMentions
    /\ \A performance \in Handled :
        Cardinality(CallsScoring(performance)) = IF api_key THEN 1 ELSE 0

\* C16 witness: a corpus whose first review does not name the pianist and
\* which names the pianist in more than three reviews, one of them in lower
\* case only; the one call made shows three reviews, the first of them the
\* second of the corpus.
C16_Witness ==
    /\ pc = "evaluate_pianists"
    /\ Cardinality(MentionedAt("A")) > PromptReviews
    /\ 1 \notin MentionedAt("A")
    /\ \E i \in 1..Len(llm_log) :
        /\ Len(llm_log[i].reviews) = PromptReviews
        /\ llm_log[i].reviews[1] = reviews_collected[2]
        /\ \E j \in 1..PromptReviews : llm_log[i].reviews[j].content = <<"a">>

\* the analyses of a pianist that json.loads accepted
ParsedOf(pianist_name) ==
    LET Parsed(a) == ~a.error IN SelectSeq(GroupOf(video_analyses, pianist_name), Parsed)

\* C17: an error-flagged stub adds nothing to the numbers of an evaluation:
\* the averaged sub-scores, overall_score and weighted_score of a pianist who
\* has a successfully parsed analysis are those of the parsed analyses alone.
C17_StubsExcluded ==
    \A i \in 1..Len(pianist_evaluations) :
        LET e == pianist_evaluations[i]
            parsed == ParsedOf(e.pianist_name)
        IN parsed # <<>> =>
            /\ \A d \in DimSet : FracEq(e.averages[d], Averages(parsed)[d])
            /\ FracEq(e.overall_score, OverallScore(Averages(parsed)))
            /\ FracEq(e.weighted_score, WeightedScore(Averages(parsed)))

\* C18: a scoring call that raises leaves an error-flagged stub for its
\* performance among the analyses, as a scoring call answered with text that
\* is not JSON does.
C18_RaisingCallLeavesStub ==
    \A k \in 1..Len(ScoringCalls) :
        ScoringCalls[k].answer \in {"raise", "text"} =>
            \E i \in 1..Len(AnalysesSoFar) :
                /\ AnalysesSoFar[i].performance_id = ScoringCalls[k].subject
                /\ AnalysesSoFar[i].error

\* a step in which a node ends by an exception
StageRaises ==
    /\ Len(stage_log') = Len(stage_log) + 1
    /\ stage_log'[Len(stage_log')].raised

\* C19: a step in which a stage raises changes nothing of the state but
\* errors, which gets exactly one more string, and hands the run on: no
\* exception leaves the graph and the following node (the end of the graph
\* after the last one) is next.
C19_RaisingStageOnlyAppendsError ==
    [][StageRaises =>
        /\ Len(errors') = Len(errors) + 1
        /\ SubSeq(errors', 1, Len(errors)) = errors
        /\ UNCHANGED <<performances_collected, reviews_collected, video_analyses,
                       pianist_evaluations, final_analysis, iteration>>
        /\ exception' = <<>>
        /\ pc' = NextNode(pc)]_vars

\* building the evaluation of this pianist failed: the narrative call could
\* not be made or raised, a score could not be summed, or an averaged score
\* is outside what the PianistEvaluation fields accept
EvaluationFailed(pianist_name) ==
    LET analyses == GroupOf(video_analyses, pianist_name)
    IN \/ ~api_key
       \/ \E i \in 1..Len(llm_log) :
            /\ llm_log[i].call = "detail"
            /\ llm_log[i].subject = pianist_name
            /\ llm_log[i].answer = "raise"
       \/ \E i \in 1..Len(analyses) : \E d \in DimSet : analyses[i].body[d].tag = "unusable"
       \/ ~Validates(Averages(analyses))

\* the pianists that have an analysis
Analysed == Range(GroupNames(video_analyses))

\* C20: once evaluate_pianists has ended, the pianists in pianist_evaluations
\* are exactly the analysed pianists whose evaluation did not fail, and the
\* ranking of a result holds exactly these: a failed pianist is in neither,
\* every other pianist is in both.
C20_FailedPianistDropped ==
    NodeEnded("evaluate_pianists") =>
        /\ Range(NamesOf(pianist_evaluations)) =
                {n \in Analysed : ~EvaluationFailed(n)}
        /\ HasResult =>
            Range(NamesOf(Result.evaluated_pianists)) =
                {n \in Analysed : ~EvaluationFailed(n)}

\* C20 witness: a result whose ranking holds a pianist while another
\* analysed pianist, whose evaluation failed, is in neither the evaluations
\* nor the ranking.
C20_Witness ==
    /\ HasResult
    /\ Len(Result.evaluated_pianists) > 0
    /\ \E n \in Analysed :
        /\ EvaluationFailed(n)
        /\ n \notin Range(NamesOf(pianist_evaluations))
        /\ n \notin Range(NamesOf(Result.evaluated_pianists))

\* the evaluations made so far in this run
EvaluationsSoFar ==
    IF pc = "evaluate_pianists" THEN loop_evaluations ELSE pianist_evaluations

\* places in video_analyses of the analyses that carry exactly this name
AnalysesNamed(name) ==
    { i \in 1..Len(video_analyses) : video_analyses[i].pianist_name = name }

\* the score an analysis adds to the sum of a dimension
ScoreOrSeven(a, d) == IF a.body[d].tag = "absent" THEN DefaultScore ELSE a.body[d].score

\* every evaluation averages, in each dimension, the scores of exactly the
\* analyses of its name, 7 standing for a missing dimension, and counts them
AveragesOverGroup ==
    \A i \in 1..Len(EvaluationsSoFar) :
        LET e == EvaluationsSoFar[i]
            group == AnalysesNamed(e.pianist_name)
        IN /\ e.expert_opinions_count = Cardinality(group)
           /\ \A d \in DimSet :
                e.averages[d].num * Cardinality(group) =
                    e.averages[d].den *
                        SumOver([k \in group |-> ScoreOrSeven(video_analyses[k], d)], group)

\* the groups being evaluated: the keys of pianist_analyses
GroupKeys == Range(loop_names)

\* C21 as stated: the groups are keyed by the exact names, every analysis is
\* in exactly one group, and every evaluation averages the scores of exactly
\* the analyses of its name (7 for a missing dimension) and counts them.
C21_GroupsAndAverages ==
    /\ (pc = "evaluate_pianists" /\ loop_i >= 1) =>
        /\ \A i, j \in 1..Len(loop_names) : loop_names[i] = loop_names[j] => i = j
        /\ \A k \in 1..Len(video_analyses) : video_analyses[k].pianist_name \in GroupKeys
        /\ \A n \in GroupKeys : AnalysesNamed(n) # {}
    /\ AveragesOverGroup

\* C21 amended: the groups are keyed by the exact names, every analysis with
\* a non-empty pianist_name is in exactly one group and an analysis with an
\* empty pianist_name is in none, and every evaluation averages the scores of
\* exactly the analyses of its name (7 for a missing dimension) and counts
\* them.
C21_NamedGroupsAndAverages ==
    /\ (pc = "evaluate_pianists" /\ loop_i >= 1) =>
        /\ \A i, j \in 1..Len(loop_names) : loop_names[i] = loop_names[j] => i = j
        /\ \A k \in 1..Len(video_analyses) :
            video_analyses[k].pianist_name \in GroupKeys
                <=> video_analyses[k].pianist_name # ""
        /\ \A n \in GroupKeys : AnalysesNamed(n) # {}
    /\ AveragesOverGroup

\* C21 witness: pianist "A" is evaluated from two analyses, one of them
\* without a repertoire score, while a third analysis has an empty name and
\* no evaluation.
C21_Witness ==
    /\ \E i \in 1..Len(EvaluationsSoFar) :
        /\ EvaluationsSoFar[i].pianist_name = "A"
        /\ EvaluationsSoFar[i].expert_opinions_count = 2
        /\ \E k \in AnalysesNamed("A") : video_analyses[k].body["repertoire"].tag = "absent"
    /\ AnalysesNamed("") # {}
    /\ pc = "predict_winners"
    /\ Len(pianist_evaluations) = 1

\* the output fields of the state and the fields a step leaves alone
OutputsKept(performances, reviews, analyses, evaluations, final) ==
    /\ performances => UNCHANGED <<performances_collected, iteration>>
    /\ reviews => UNCHANGED reviews_collected
    /\ analyses => UNCHANGED video_analyses
    /\ evaluations => UNCHANGED pianist_evaluations
    /\ final => UNCHANGED final_analysis

\* a step of a node changes no output field but the node's own, and the
\* evaluations a result ranks are those evaluate_pianists made, unmodified
OwnOutputsOnly ==
    /\ pc = "collect_performances" => OutputsKept(FALSE, TRUE, TRUE, TRUE, TRUE)
    /\ pc = "collect_reviews" => OutputsKept(TRUE, FALSE, TRUE, TRUE, TRUE)
    /\ pc = "analyze_performances" => OutputsKept(TRUE, TRUE, FALSE, TRUE, TRUE)
    /\ pc = "evaluate_pianists" => OutputsKept(TRUE, TRUE, TRUE, FALSE, TRUE)
    /\ pc = "predict_winners" => OutputsKept(TRUE, TRUE, TRUE, TRUE, FALSE)
    /\ pc = "END" => OutputsKept(TRUE, TRUE, TRUE, TRUE, TRUE)
    /\ final_analysis' # <<>> =>
        \A i \in 1..Len(final_analysis'[1].evaluated_pianists) :
            \E j \in 1..Len(pianist_evaluations') :
                final_analysis'[1].evaluated_pianists[i] = pianist_evaluations'[j]

\* C22 as stated: every step of a stage changes that stage's own output
\* fields only (performances_collected and iteration, reviews_collected,
\* video_analyses, pianist_evaluations, final_analysis) and nothing else of
\* the state, errors included; no evaluation changes once made.
C22_StageChangesOwnFields ==
    [][OwnOutputsOnly /\ UNCHANGED errors]_vars

\* C22 amended: every step of a stage changes that stage's own output
\* fields only, except that a collection stage that raises changes errors
\* instead of its output fields; no evaluation changes once made.
C22_StageChangesOwnFieldsOrErrors ==
    [][/\ OwnOutputsOnly
       /\ IF StageRaises /\ pc \in {"collect_performances", "collect_reviews"}
          THEN OutputsKept(TRUE, TRUE, TRUE, TRUE, TRUE)
          ELSE UNCHANGED errors]_vars

\* C22 witness: a run in which the review collection raised has ended with a
\* result that ranks an evaluation: the performances collected before are
\* still there and the ranked evaluation is the one evaluate_pianists made.
C22_Witness ==
    /\ outcome = "returned"
    /\ NodeRaisedIn("collect_reviews")
    /\ Len(errors) = 1
    /\ performances_collected # <<>>
    /\ iteration = 1
    /\ Len(Result.evaluated_pianists) > 0

\* place of a performance among the performances analysed
AnalysedIndex(id) == CHOOSE k \in 1..Len(ToAnalyze) : ToAnalyze[k].id = id

\* C23: at most one scoring call is in flight; while the call for a
\* performance is in flight, the calls for all performances before it have
\* come back or failed and none for a later one has been made; and the
\* analysis records stand in the order of their performances.
C23_OneCallInFlight ==
    /\ Cardinality(in_flight) <= 1
    /\ \A id \in in_flight :
        LET CameBack == {ScoringCalls[i].subject : i \in 1..Len(ScoringCalls)}
        IN /\ \A k \in 1..(AnalysedIndex(id) - 1) : ToAnalyze[k].id \in CameBack
           /\ \A k \in AnalysedIndex(id)..Len(ToAnalyze) : ToAnalyze[k].id \notin CameBack
    /\ \A i, j \in 1..Len(AnalysesSoFar) :
        i < j => AnalysedIndex(AnalysesSoFar[i].performance_id)
                    < AnalysedIndex(AnalysesSoFar[j].performance_id)

\* C23 witness: the call for the third performance is in flight after the
\* call for the first has returned an analysis and the call for the second
\* has failed.
C23_Witness ==
    /\ Len(ToAnalyze) >= 3
    /\ in_flight = {ToAnalyze[3].id}
    /\ Len(ScoringCalls) = 2
    /\ ScoringCalls[1].answer = "json"
    /\ ScoringCalls[2].answer = "raise"
    /\ Len(loop_analyses) = 1

\* the different entries the analyses of a pianist name in this field
Named(pianist_name, field) ==
    UNION { Range(EntriesOf(video_analyses[k], field)) : k \in AnalysesNamed(pianist_name) }

\* no element of the list occurs twice in it
NoRepeats(list) == \A i, j \in 1..Len(list) : list[i] = list[j] => i = j

\* a list of at most five different entries, all named by an analysis of the
\* pianist, and all of the named ones when these are at most five
FiveOfNamed(list, named) ==
    /\ Len(list) <= 5
    /\ NoRepeats(list)
    /\ Range(list) \subseteq named
    /\ Cardinality(named) <= 5 => Range(list) = named

\* C24: strengths and weaknesses of every evaluation have at most five
\* entries and no duplicates, every entry is named by an analysis of that
\* pianist, and when these analyses name at most five different entries all
\* of them are listed.
C24_UniqueTopFive ==
    \A i \in 1..Len(EvaluationsSoFar) :
        LET e == EvaluationsSoFar[i]
        IN /\ FiveOfNamed(e.strengths, Named(e.pianist_name, "strengths"))
           /\ FiveOfNamed(e.weaknesses, Named(e.pianist_name, "weaknesses"))

\* C24 witness: the analyses of a pianist name more than five different
\* strengths, one of them in both analyses, and one weakness twice; the
\* evaluation lists five strengths and the one weakness.
C24_Witness ==
    /\ Len(pianist_evaluations) = 1
    /\ Cardinality(Named("A", "strengths")) > 5
    /\ EntriesOf(video_analyses[2], "strengths") = <<1, 1>>
    /\ Len(pianist_evaluations[1].strengths) = 5
    /\ EntriesOf(video_analyses[1], "weaknesses") = <<"w", "w">>
    /\ pianist_evaluations[1].weaknesses = <<"w">>

\* a score, as a fraction of tenths, lies in 0.0 .. 10.0
InRange(x) ==
    /\ x.den > 0
    /\ x.num >= 0
    /\ x.num <= 100 * x.den

\* the scores the analyses of this pianist sum up to in some dimension lie
\* outside 0.0 .. 10.0 once divided by their number
AveragesOutside(pianist_name) ==
    LET group == AnalysesNamed(pianist_name)
        Total(d) == SumOver([k \in group |-> ScoreOrSeven(video_analyses[k], d)], group)
    IN \E d \in DimSet : Total(d) < 0 \/ Total(d) > 100 * Cardinality(group)

\* C25: in a result every evaluation has its five sub-scores, overall_score
\* and weighted_score in 0.0 .. 10.0 and win_probability at most
\* finalist_probability, and no pianist whose averaged scores leave that
\* range is ranked.
C25_RankedScoresInRange ==
    HasResult =>
        /\ \A i \in 1..Len(Result.evaluated_pianists) :
            LET e == Result.evaluated_pianists[i]
            IN /\ \A d \in DimSet : InRange(e.averages[d])
               /\ InRange(e.overall_score)
               /\ InRange(e.weighted_score)
               /\ e.win_probability <= e.finalist_probability
        /\ \A n \in Analysed :
            AveragesOutside(n) => n \notin Range(NamesOf(Result.evaluated_pianists))

\* C25 witness: a result ranks a pianist while another pianist, whose
\* analysis scores 11.0 in every dimension, is not ranked.
C25_Witness ==
    /\ HasResult
    /\ Len(Result.evaluated_pianists) > 0
    /\ \E k \in 1..Len(video_analyses) :
        /\ ~video_analyses[k].error
        /\ \A d \in DimSet : video_analyses[k].body[d] = Scored(110)
        /\ AveragesOutside(video_analyses[k].pianist_name)
        /\ video_analyses[k].pianist_name \notin Range(NamesOf(Result.evaluated_pianists))

\* places in performances_collected of the records that carry this name
CollectedAs(name) ==
    { k \in 1..Len(performances_collected) : performances_collected[k].pianist_name = name }

\* the first collected performance of this name
FirstCollectedAs(name) ==
    performances_collected[CHOOSE k \in CollectedAs(name) : \A l \in CollectedAs(name) : k <= l]

\* C26: every name evaluate_pianists calls _create_pianist_evaluation for, and
\* every name an analysis is grouped under, has a collected performance, and
\* every evaluation carries the nationality and the stage of the first
\* collected performance of its name.
C26_EvaluatedNameWasCollected ==
    /\ \A n \in GroupKeys \cup Analysed : CollectedAs(n) # {}
    /\ \A i \in 1..Len(EvaluationsSoFar) :
        LET e == EvaluationsSoFar[i]
        IN /\ CollectedAs(e.pianist_name) # {}
           /\ e.nationality = FirstCollectedAs(e.pianist_name).nationality
           /\ e.stage = FirstCollectedAs(e.pianist_name).stage

\* C26 witness: a pianist collected first on the website and then on YouTube
\* is evaluated from both analyses, with the nationality and the stage of the
\* website record.
C26_Witness ==
    \E i \in 1..Len(pianist_evaluations) :
        LET e == pianist_evaluations[i]
        IN /\ Cardinality(CollectedAs(e.pianist_name)) = 2
           /\ e.expert_opinions_count = 2
           /\ e.nationality = "Poland"
           /\ e.stage = "preliminary"
           /\ \E k \in CollectedAs(e.pianist_name) :
                /\ performances_collected[k].nationality = "Unknown"
                /\ performances_collected[k].stage = "stage_1"

\* C27: no dark horse is among the top 10, the k-th dark horse is the
\* pianist of rank 10 + k, so that none stands below a pianist of rank 11 or
\* lower who was passed over, and there is a dark horse only if every pianist
\* of the top 10 has a weighted_score of at least 8.5.
C27_DarkHorsesFollowTopTen ==
    HasResult =>
        LET r == Result.evaluated_pianists
            dark == Result.dark_horses
        IN /\ Range(dark) \cap Range(Result.top_10_predictions) = {}
           /\ \A k \in 1..Len(dark) :
                /\ 10 + k <= Len(r)
                /\ dark[k] = r[10 + k].pianist_name
           /\ dark # <<>> =>
                \A i \in 1..10 : FracGeq(r[i].weighted_score, Frac(85, 1))

\* C27 witness: two dark horses, the pianists of ranks 11 and 12, above a
\* pianist of rank 13 who is below 8.5.
C27_Witness ==
    /\ HasResult
    /\ Len(Result.dark_horses) = 2
    /\ Len(Result.evaluated_pianists) >= 13
    /\ Result.dark_horses[2] = Result.evaluated_pianists[12].pianist_name
    /\ ~FracGeq(Result.evaluated_pianists[13].weighted_score, Frac(85, 1))

\* C28: the names in evaluated_pianists are pairwise distinct, the ranking
\* holds exactly the evaluations of pianist_evaluations, each once, and
\* top_10_predictions, predicted_finalists and dark_horses hold names of
\* ranked pianists only, none twice.
C28_RankingHoldsEachPianistOnce ==
    /\ NoRepeats(NamesOf(EvaluationsSoFar))
    /\ HasResult =>
        LET r == Result.evaluated_pianists
            names == Range(NamesOf(r))
        IN /\ NoRepeats(NamesOf(r))
           /\ Len(r) = Len(pianist_evaluations)
           /\ Range(r) = Range(pianist_evaluations)
           /\ Range(Result.top_10_predictions) \subseteq names
           /\ Range(Result.predicted_finalists) \subseteq names
           /\ Range(Result.dark_horses) \subseteq names
           /\ NoRepeats(Result.top_10_predictions)
           /\ NoRepeats(Result.predicted_finalists)
           /\ NoRepeats(Result.dark_horses)

\* C28 witness: a result ranks two pianists, one of them analysed twice and
\* ranked once, and names both in the top 10 and among the finalists.
C28_Witness ==
    /\ HasResult
    /\ Len(Result.evaluated_pianists) = 2
    /\ \E i \in 1..2 : Result.evaluated_pianists[i].expert_opinions_count = 2
    /\ Len(Result.top_10_predictions) = 2
    /\ Len(Result.predicted_finalists) = 2

\* PerformanceLevel in rising order
LevelRank(level) ==
    CHOOSE k \in 1..5 :
        <<"eliminated", "average", "good", "excellent", "outstanding">>[k] = level

\* C29: down the ranking of a result the performance level, win_probability
\* and finalist_probability never rise: a pianist ranked above another has a
\* level at least as high and probabilities at least as large.
C29_LevelsFallAlongRanking ==
    HasResult =>
        LET r == Result.evaluated_pianists IN
        \A i, j \in 1..Len(r) :
            i < j =>
                /\ r[i].win_probability >= r[j].win_probability
                /\ r[i].finalist_probability >= r[j].finalist_probability
                /\ LevelRank(r[i].performance_level) >= LevelRank(r[j].performance_level)

\* C29 witness: a ranking that holds pianists of three levels and was not
\* evaluated in that order.
C29_Witness ==
    /\ HasResult
    /\ Cardinality({Result.evaluated_pianists[i].performance_level :
                        i \in 1..Len(Result.evaluated_pianists)}) >= 3
    /\ \E i \in 1..(Len(pianist_evaluations) - 1) :
        pianist_evaluations[i].win_probability < pianist_evaluations[i + 1].win_probability

\* C30: without an API key a run of analyze() issues no LLM call, keeps no
\* analysis of any performance and no evaluation, does not raise, and returns
\* the placeholder result of the zero-evaluation branch; the request is
\* refused with 503 before analyze() exactly when it came to POST /analyze,
\* and no request is refused that way when a key is set.
C30_NoKeyYieldsPlaceholder ==
    /\ ~api_key =>
        /\ llm_log = <<>>
        /\ video_analyses = <<>> /\ loop_analyses = <<>>
        /\ pianist_evaluations = <<>> /\ loop_evaluations = <<>>
        /\ outcome # "raised"
        /\ outcome = "returned" =>
            /\ Result.evaluated_pianists = <<>>
            /\ Result.predicted_winner = "No data available"
            /\ Result.confidence = 0
        /\ request.endpoint = "/analyze" =>
            /\ stage_log = <<>>
            /\ pc = "END" => (outcome = "rejected" /\ exception[1].status = 503)
        /\ request.endpoint # "/analyze" =>
            /\ outcome # "rejected"
            /\ pc = "END" /\ outcome # "pending" => outcome = "returned"
    /\ api_key => outcome # "rejected"

\* C30 witness: without a key, a request to another endpoint than
\* POST /analyze has run the pipeline over collected performances, each of
\* which was skipped, and analyze() has returned the placeholder.
C30_Witness ==
    /\ ~api_key
    /\ request.endpoint = "/rankings"
    /\ outcome = "returned"
    /\ Len(performances_collected) >= 2
    /\ video_analyses = <<>>
    /\ Result.predicted_winner = "No data available"

====
